---- MODULE Spec2Model ----
(***************************************************************************)
(* UUID utility toolkit (src/src/utils.js): validation, version lookup,    *)
(* analysis and format conversion of identifier strings.                   *)
(*                                                                         *)
(* A JavaScript string is a sequence of one-character strings; a           *)
(* JavaScript value is a record [t |-> typeof-tag, s |-> characters]       *)
(* (s is empty for the values that are not strings).  An object is a       *)
(* TLA+ record whose DOMAIN is the set of its own keys.                    *)
(***************************************************************************)
EXTENDS Integers, Sequences, FiniteSets, TLC

VARIABLES
    regexEdition,   \* which validate() regex the installed uuid package has
    uuid,           \* the argument of the call
    uuids,          \* the array argument of a batch call
    options,        \* the options argument of convertUUIDFormat
    fn,             \* the function called last ("none" before any call)
    outcome,        \* what that call did: a returned value or a raised error
    request,        \* the tool call or the job input an interface was given
    effects         \* what a job run wrote to the dataset and the store, in order

vars == <<regexEdition, uuid, uuids, options, fn, outcome, request, effects>>

----------------------------------------------------------------------------
(* Characters and the JavaScript string primitives the code uses.          *)

HexChars == <<"0","1","2","3","4","5","6","7","8","9","a","b","c","d","e","f">>

LowerAlpha == <<"a","b","c","d","e","f","g","h","i","j","k","l","m",
                "n","o","p","q","r","s","t","u","v","w","x","y","z">>

UpperAlpha == <<"A","B","C","D","E","F","G","H","I","J","K","L","M",
                "N","O","P","Q","R","S","T","U","V","W","X","Y","Z">>

\* the case mappings of the ASCII letters, as tables from character to character
LowerOf == [c \in {UpperAlpha[i] : i \in 1..26} |-> LowerAlpha[CHOOSE i \in 1..26 : UpperAlpha[i] = c]]

UpperOf == [c \in {LowerAlpha[i] : i \in 1..26} |-> UpperAlpha[CHOOSE i \in 1..26 : LowerAlpha[i] = c]]

\* the value of each hexadecimal digit, in either case
HexValueOf ==
    [c \in {HexChars[i] : i \in 1..16} \cup {UpperAlpha[i] : i \in 1..6} |->
        IF \E i \in 1..16 : HexChars[i] = c
            THEN (CHOOSE i \in 1..16 : HexChars[i] = c) - 1
            ELSE 9 + (CHOOSE i \in 1..6 : UpperAlpha[i] = c)]

ToLowerChar(c) == IF c \in DOMAIN LowerOf THEN LowerOf[c] ELSE c

ToUpperChar(c) == IF c \in DOMAIN UpperOf THEN UpperOf[c] ELSE c

\* toLowerCase leaving every character as it is
toLowerCase_identity(s) == s

\* String.prototype.toLowerCase / toUpperCase
toLowerCase(s) == [i \in 1..Len(s) |-> ToLowerChar(s[i])]

toUpperCase(s) == [i \in 1..Len(s) |-> ToUpperChar(s[i])]

\* s.replace(/-/g, '')
RECURSIVE StripDashes(_)
StripDashes(s) ==
    IF s = <<>> THEN <<>>
    ELSE IF Head(s) = "-" THEN StripDashes(Tail(s))
    ELSE <<Head(s)>> \o StripDashes(Tail(s))

\* includes('-') answering false whatever the string is
IncludesDash_never(s) == FALSE

\* s.includes('-')
IncludesDash(s) == \E i \in 1..Len(s) : s[i] = "-"

\* s.slice(a, b) for 0 <= a <= b, clamped to the length as slice does
Slice(s, a, b) ==
    LET hi == IF b > Len(s) THEN Len(s) ELSE b
    IN  IF a >= hi THEN <<>> ELSE SubSeq(s, a + 1, hi)

\* [0-9a-f] under the /i flag
IsHexChar(c) == c \in DOMAIN HexValueOf

\* parseInt(c, 16) of one hexadecimal character
HexVal(c) == HexValueOf[c]

\* `${n.slice(0,8)}-${n.slice(8,12)}-${n.slice(12,16)}-${n.slice(16,20)}-${n.slice(20,32)}`
Regroup(n) ==
    Slice(n, 0, 8) \o <<"-">> \o Slice(n, 8, 12) \o <<"-">> \o Slice(n, 12, 16)
        \o <<"-">> \o Slice(n, 16, 20) \o <<"-">> \o Slice(n, 20, 32)

----------------------------------------------------------------------------
(* JavaScript values.                                                      *)

Str(s) == [t |-> "string", s |-> s]

NonStrings == {[t |-> k, s |-> <<>>] : k \in {"null", "undefined", "number", "object"}}

Returned(v) == [kind |-> "return", value |-> v]

Raised(m) == [kind |-> "throw", message |-> m]

NoOutcome == [kind |-> "none"]

\* no tool call and no job input
NoRequest == [via |-> "none"]

\* null, and a number small enough to be written as a TLA+ integer
JsNull == [t |-> "null", s |-> <<>>]

Num(n) == [t |-> "number", n |-> n]

----------------------------------------------------------------------------
(* validate and version of the uuid package, imported at utils.js:1.       *)
(* validate(x) is  typeof x === 'string' && REGEX.test(x)  with REGEX      *)
(*   /^(?:[0-9a-f]{8}-[0-9a-f]{4}-[V][0-9a-f]{3}-[89ab][0-9a-f]{3}-        *)
(*        [0-9a-f]{12}|00000000-0000-0000-0000-000000000000)$/i            *)
(* where V is 1-5 in the releases before 10 ("rfc4122") and 1-8 from       *)
(* release 10 on ("rfc9562"), which also accept ffffffff-ffff-ffff-ffff-   *)
(* ffffffffffff.  The repository does not pin the release, so the edition  *)
(* is chosen once, in Init.                                                *)

RegexEditions == {"rfc4122", "rfc9562"}

DashPositions == {9, 14, 19, 24}

\* [0-9a-f]{8}-[0-9a-f]{4}-[0-9a-f]{4}-[0-9a-f]{4}-[0-9a-f]{12} under /i
IsDashedHex(s) ==
    /\ Len(s) = 36
    /\ \A i \in 1..36 : IF i \in DashPositions THEN s[i] = "-" ELSE IsHexChar(s[i])

MaxVersionDigit == IF regexEdition = "rfc9562" THEN 8 ELSE 5

AllSame(s, c) == \A i \in 1..Len(s) : i \notin DashPositions => ToLowerChar(s[i]) = c

\* the regex without its variant class
REGEX_test_anyVariant(s) ==
    /\ IsDashedHex(s)
    /\ \/ HexVal(s[15]) \in 1..MaxVersionDigit
       \/ AllSame(s, "0")
       \/ regexEdition = "rfc9562" /\ AllSame(s, "f")

REGEX_test(s) ==
    /\ IsDashedHex(s)
    /\ \/ /\ HexVal(s[15]) \in 1..MaxVersionDigit
          /\ HexVal(s[20]) \in 8..11
       \/ AllSame(s, "0")
       \/ regexEdition = "rfc9562" /\ AllSame(s, "f")

validate(x) == x.t = "string" /\ REGEX_test(x.s)

\* version(x): parseInt(x.slice(14, 15), 16), a TypeError when x is not valid
versionThrows(x) == ~validate(x)

version(x) == HexVal(x.s[15])


----------------------------------------------------------------------------
(* Integers beyond 32 bits.  A BigInt that is being shifted and or-ed is a *)
(* big-endian sequence of 4-bit digits (Bits); a BigInt in arithmetic is a *)
(* sign and a magnitude, the magnitude a little-endian sequence of limbs   *)
(* in base 10000 without leading zero limbs (zero is <<>>).                *)

Base == 10000

RECURSIVE BitAnd(_, _)
BitAnd(a, b) ==
    IF a = 0 \/ b = 0 THEN 0
    ELSE 2 * BitAnd(a \div 2, b \div 2) + (IF a % 2 = 1 /\ b % 2 = 1 THEN 1 ELSE 0)

RECURSIVE BitOr(_, _)
BitOr(a, b) ==
    IF a = 0 THEN b
    ELSE IF b = 0 THEN a
    ELSE 2 * BitOr(a \div 2, b \div 2) + (IF a % 2 = 1 \/ b % 2 = 1 THEN 1 ELSE 0)

\* parseInt(s, 16) of a short string of hexadecimal characters
RECURSIVE ParseHex(_)
ParseHex(s) ==
    IF s = <<>> THEN 0 ELSE 16 * ParseHex(SubSeq(s, 1, Len(s) - 1)) + HexVal(s[Len(s)])

\* n.toString(16): no leading zeros, "0" for zero
RECURSIVE ToHexString(_)
ToHexString(n) ==
    IF n < 16 THEN <<HexChars[n + 1]>>
    ELSE ToHexString(n \div 16) \o <<HexChars[(n % 16) + 1]>>

\* BigInt(`0x${s}`) as Bits
BitsOfHex(s) == [i \in 1..Len(s) |-> HexVal(s[i])]

Zeros(k) == [i \in 1..k |-> 0]

\* b << n for n a multiple of 4
ShiftLeft(b, n) == b \o Zeros(n \div 4)

PadLeft(b, k) == Zeros(k - Len(b)) \o b

\* a | b
BigOr(a, b) ==
    LET k == IF Len(a) > Len(b) THEN Len(a) ELSE Len(b)
        pa == PadLeft(a, k)
        pb == PadLeft(b, k)
    IN  [i \in 1..k |-> BitOr(pa[i], pb[i])]

RECURSIVE Trim(_)
Trim(m) ==
    IF m = <<>> THEN <<>>
    ELSE IF m[Len(m)] = 0 THEN Trim(SubSeq(m, 1, Len(m) - 1))
    ELSE m

\* m * k + c, for k and c small
RECURSIVE MulAdd(_, _, _)
MulAdd(m, k, c) ==
    IF m = <<>> THEN (IF c = 0 THEN <<>> ELSE <<c % Base>> \o MulAdd(<<>>, k, c \div Base))
    ELSE LET v == Head(m) * k + c
         IN  <<v % Base>> \o MulAdd(Tail(m), k, v \div Base)

\* the magnitude of the value of Bits
RECURSIVE MagOfBits(_)
MagOfBits(b) ==
    IF b = <<>> THEN <<>>
    ELSE Trim(MulAdd(MagOfBits(SubSeq(b, 1, Len(b) - 1)), 16, b[Len(b)]))

RECURSIVE AddMag(_, _, _)
AddMag(a, b, c) ==
    IF a = <<>> /\ b = <<>> THEN (IF c = 0 THEN <<>> ELSE <<c>>)
    ELSE LET x == IF a = <<>> THEN 0 ELSE Head(a)
             y == IF b = <<>> THEN 0 ELSE Head(b)
             v == x + y + c
         IN  <<v % Base>> \o AddMag(IF a = <<>> THEN <<>> ELSE Tail(a),
                                    IF b = <<>> THEN <<>> ELSE Tail(b), v \div Base)

\* a - b - c for a >= b + c
RECURSIVE SubMag(_, _, _)
SubMag(a, b, c) ==
    IF a = <<>> THEN <<>>
    ELSE LET y == IF b = <<>> THEN 0 ELSE Head(b)
             v == Head(a) - y - c
         IN  <<IF v < 0 THEN v + Base ELSE v>>
                 \o SubMag(Tail(a), IF b = <<>> THEN <<>> ELSE Tail(b), IF v < 0 THEN 1 ELSE 0)

\* a < b on trimmed magnitudes
RECURSIVE LessMag(_, _)
LessMag(a, b) ==
    IF Len(a) # Len(b) THEN Len(a) < Len(b)
    ELSE IF a = <<>> THEN FALSE
    ELSE IF a[Len(a)] # b[Len(b)] THEN a[Len(a)] < b[Len(b)]
    ELSE LessMag(SubSeq(a, 1, Len(a) - 1), SubSeq(b, 1, Len(b) - 1))

Big(neg, mag) == [neg |-> neg /\ mag # <<>>, mag |-> mag]

\* a - b for a, b >= 0
BigSub(a, b) ==
    IF LessMag(a, b) THEN Big(TRUE, Trim(SubMag(b, a, 0)))
    ELSE Big(FALSE, Trim(SubMag(a, b, 0)))

\* long division of a magnitude by a small d: <<quotient, remainder>>
RECURSIVE DivStep(_, _, _)
DivStep(m, d, r) ==
    IF m = <<>> THEN <<<<>>, r>>
    ELSE LET v    == r * Base + m[Len(m)]
             rest == DivStep(SubSeq(m, 1, Len(m) - 1), d, v % d)
         IN  <<rest[1] \o <<v \div d>>, rest[2]>>

DivMag(m, d) == LET qr == DivStep(m, d, 0) IN <<Trim(qr[1]), qr[2]>>

\* a / d for BigInts: the quotient truncated toward zero
BigDiv(a, d) == Big(a.neg, DivMag(a.mag, d)[1])

Digit(n) == HexChars[n + 1]

Pad4(n) == <<Digit(n \div 1000), Digit((n \div 100) % 10), Digit((n \div 10) % 10), Digit(n % 10)>>

RECURSIVE Decimal(_)
Decimal(n) == IF n < 10 THEN <<Digit(n)>> ELSE Decimal(n \div 10) \o <<Digit(n % 10)>>

RECURSIVE DecimalOfMag(_)
DecimalOfMag(m) ==
    IF m = <<>> THEN <<"0">>
    ELSE IF Len(m) = 1 THEN Decimal(m[1])
    ELSE DecimalOfMag(Tail(m)) \o Pad4(Head(m))

\* x.toString() of a BigInt
BigToString(a) == (IF a.neg THEN <<"-">> ELSE <<>>) \o DecimalOfMag(a.mag)

\* a magnitude small enough to be a TLA+ integer
RECURSIVE IntOfMag(_)
IntOfMag(m) == IF m = <<>> THEN 0 ELSE Head(m) + Base * IntOfMag(Tail(m))

----------------------------------------------------------------------------
(* utils.js                                                                *)

\* validateUUID as it would be if it normalized its argument as analyzeUUID does
validateUUID_normalizing(x) ==
    x.t = "string" /\ validate(Str(Regroup(toLowerCase(StripDashes(x.s)))))

\* try { return validate(uuid) } catch { return false }
validateUUID(x) == validate(x)

\* getUUIDVersion with the validity test inverted
getUUIDVersion_inverted(x) ==
    IF validate(x) THEN JsNull
    ELSE IF versionThrows(x) THEN JsNull
    ELSE Num(version(x))

\* try { if (!validate(uuid)) return null; return version(uuid) } catch { return null }
getUUIDVersion(x) ==
    IF ~validate(x) THEN JsNull
    ELSE IF versionThrows(x) THEN JsNull
    ELSE Num(version(x))

----------------------------------------------------------------------------
(* new Date(ms).toISOString(): the ECMAScript Day/TimeWithinDay split and  *)
(* the proleptic Gregorian calendar.                                       *)

MsPerDay == 86400000

\* a Number too large for a TLA+ integer: sign and magnitude
Number(a) == [t |-> "number", neg |-> a.neg, mag |-> a.mag]

\* <<Day(t), TimeWithinDay(t)>>: floor(t / msPerDay) and t modulo msPerDay
DayAndTime(a) ==
    LET lo   == DivMag(a.mag, Base)
        hi   == DivMag(lo[1], MsPerDay \div Base)
        q    == IntOfMag(hi[1])
        r    == hi[2] * Base + lo[2]
    IN  IF ~a.neg THEN <<q, r>>
        ELSE IF r = 0 THEN <<-q, 0>>
        ELSE <<-q - 1, MsPerDay - r>>

\* <<year, month, date>> of a day number counted from 1970-01-01
CivilFromDays(day) ==
    LET z   == day + 719468
        era == z \div 146097
        doe == z - era * 146097
        yoe == (doe - doe \div 1460 + doe \div 36524 - doe \div 146096) \div 365
        doy == doe - (365 * yoe + yoe \div 4 - yoe \div 100)
        mp  == (5 * doy + 2) \div 153
        d   == doy - (153 * mp + 2) \div 5 + 1
        m   == IF mp < 10 THEN mp + 3 ELSE mp - 9
        y   == yoe + era * 400 + (IF m <= 2 THEN 1 ELSE 0)
    IN  <<y, m, d>>

Pad2(n) == <<Digit(n \div 10), Digit(n % 10)>>

Pad3(n) == <<Digit(n \div 100), Digit((n \div 10) % 10), Digit(n % 10)>>

\* YYYY-MM-DDTHH:mm:ss.sssZ (every year reachable here has four digits)
toISOString(a) ==
    LET dt  == DayAndTime(a)
        ymd == CivilFromDays(dt[1])
        ms  == dt[2]
    IN  Pad4(ymd[1]) \o <<"-">> \o Pad2(ymd[2]) \o <<"-">> \o Pad2(ymd[3]) \o <<"T">>
            \o Pad2(ms \div 3600000) \o <<":">> \o Pad2((ms \div 60000) % 60) \o <<":">>
            \o Pad2((ms \div 1000) % 60) \o <<".">> \o Pad3(ms % 1000) \o <<"Z">>

----------------------------------------------------------------------------
(* utils.js: analysis                                                      *)

\* getVariant(normalizedUUID)
getVariant(normalizedUUID) ==
    LET variantByte == HexVal(normalizedUUID[17])
    IN  IF BitAnd(variantByte, 8) = 0 THEN "NCS backward compatible"
        ELSE IF BitAnd(variantByte, 12) = 8 THEN "RFC 4122"
        ELSE IF BitAnd(variantByte, 14) = 12 THEN "Microsoft"
        ELSE "Reserved for future use"

\* 122192928000000000n
UUID_EPOCH_OFFSET == <<0, 0, 9280, 2192, 12>>

\* BigInt(`0x${s}`) is a SyntaxError unless s is one or more hexadecimal digits
BigIntThrows(s) == s = <<>> \/ \E i \in 1..Len(s) : ~IsHexChar(s[i])

\* parseInt(s, 16): the value of the longest hexadecimal prefix; NaN without one,
\* and NaN & mask is 0
RECURSIVE HexPrefix(_)
HexPrefix(s) ==
    IF s = <<>> \/ ~IsHexChar(Head(s)) THEN <<>> ELSE <<Head(s)>> \o HexPrefix(Tail(s))

parseInt16(s) == ParseHex(HexPrefix(s))

\* (BigInt(high) << 48n) | (BigInt(mid) << 32n) | BigInt(low), as Bits
CombineTimestamp(timeHighValue, timeMid, timeLow) ==
    BigOr(BigOr(ShiftLeft(BitsOfHex(ToHexString(timeHighValue)), 48),
                ShiftLeft(BitsOfHex(timeMid), 32)),
          BitsOfHex(timeLow))

\* the mask left out: the version bits stay in the high field
MaskVersion_unmasked(timeHighAndVersion) == BitAnd(timeHighAndVersion, 65535)

\* timeHighAndVersion & 0x0FFF
MaskVersion(timeHighAndVersion) == BitAnd(timeHighAndVersion, 4095)

\* (timestamp - UUID_EPOCH_OFFSET) / 10000n
UnixOf(timestamp) == BigDiv(BigSub(timestamp, UUID_EPOCH_OFFSET), 10000)

\* extractV1Timestamp(normalizedUUID): null when the body raises
extractV1Timestamp(normalizedUUID) ==
    LET timeLow            == Slice(normalizedUUID, 0, 8)
        timeMid            == Slice(normalizedUUID, 8, 12)
        timeHigh           == Slice(normalizedUUID, 12, 16)
        timeHighAndVersion == parseInt16(timeHigh)
        timeHighValue      == MaskVersion(timeHighAndVersion)
        timestamp          == Trim(MagOfBits(CombineTimestamp(timeHighValue, timeMid, timeLow)))
        unixTimestamp      == Number(UnixOf(timestamp))
    IN  IF BigIntThrows(timeMid) \/ BigIntThrows(timeLow) THEN JsNull
        ELSE [iso  |-> toISOString(unixTimestamp),
              unix |-> unixTimestamp,
              raw  |-> BigToString(Big(FALSE, timestamp))]

\* the version-specific fields with the labels of versions 3 and 5 exchanged
VersionInfo_swapped(uuidVersion, normalized) ==
    IF uuidVersion = 1
        THEN [timestamp |-> extractV1Timestamp(normalized), type |-> "timestamp-based"]
    ELSE IF uuidVersion = 4 THEN [type |-> "random"]
    ELSE IF uuidVersion = 5 THEN [type |-> "namespace-based (MD5)"]
    ELSE IF uuidVersion = 3 THEN [type |-> "namespace-based (SHA-1)"]
    ELSE <<>>

\* the version-specific fields analyzeUUID adds
VersionInfo(uuidVersion, normalized) ==
    IF uuidVersion = 1
        THEN [timestamp |-> extractV1Timestamp(normalized), type |-> "timestamp-based"]
    ELSE IF uuidVersion = 4 THEN [type |-> "random"]
    ELSE IF uuidVersion = 5 THEN [type |-> "namespace-based (SHA-1)"]
    ELSE IF uuidVersion = 3 THEN [type |-> "namespace-based (MD5)"]
    ELSE <<>>

\* the format taken from the regrouped identifier instead of the argument
FormatOf_ofFormatted(s) == IF IncludesDash(Regroup(StripDashes(s))) THEN "standard" ELSE "compact"

\* uuid.includes('-') ? 'standard' : 'compact'
FormatOf(s) == IF IncludesDash(s) THEN "standard" ELSE "compact"

\* analyzeUUID with the format test placed before the length test
analyzeUUID_formatFirst(x) ==
    IF x.t # "string" THEN Raised("TypeError")
    ELSE
    LET normalized == toLowerCase(StripDashes(x.s))
        formatted  == Regroup(normalized)
    IN  IF ~validate(Str(formatted))
            THEN Returned([valid |-> FALSE, error |-> "Invalid UUID format"])
        ELSE IF Len(normalized) # 32
            THEN Returned([valid |-> FALSE, error |-> "Invalid UUID length"])
        ELSE LET uuidVersion == version(Str(formatted))
             IN  Returned([valid   |-> TRUE,
                           uuid    |-> formatted,
                           version |-> uuidVersion,
                           format  |-> FormatOf(x.s),
                           variant |-> getVariant(normalized)]
                          @@ VersionInfo(uuidVersion, normalized))

\* analyzeUUID(uuid); calling .replace on a value that is not a string is a TypeError
analyzeUUID(x) ==
    IF x.t # "string" THEN Raised("TypeError")
    ELSE
    LET normalized == toLowerCase(StripDashes(x.s))
        formatted  == Regroup(normalized)
    IN  IF Len(normalized) # 32
            THEN Returned([valid |-> FALSE, error |-> "Invalid UUID length"])
        ELSE IF ~validate(Str(formatted))
            THEN Returned([valid |-> FALSE, error |-> "Invalid UUID format"])
        ELSE LET uuidVersion == version(Str(formatted))
             IN  Returned([valid   |-> TRUE,
                           uuid    |-> formatted,
                           version |-> uuidVersion,
                           format  |-> FormatOf(x.s),
                           variant |-> getVariant(normalized)]
                          @@ VersionInfo(uuidVersion, normalized))

----------------------------------------------------------------------------
(* utils.js: conversion                                                    *)

\* const { uppercase = false, removeDashes = false } = options
Option(o, key) == IF key \in DOMAIN o THEN o[key] ELSE FALSE

\* convertUUIDFormat with the case change skipped once the dashes are removed
convertUUIDFormat_elseIf(x, o) ==
    IF x.t # "string" THEN Raised("TypeError")
    ELSE
    LET normalized == toLowerCase(StripDashes(x.s))
        standard   == Regroup(normalized)
        result     == IF Option(o, "removeDashes") THEN StripDashes(standard)
                      ELSE IF Option(o, "uppercase") THEN toUpperCase(standard)
                      ELSE standard
    IN  IF Len(normalized) # 32 THEN Raised("Invalid UUID length")
        ELSE IF ~validate(Str(standard)) THEN Raised("Invalid UUID format")
        ELSE Returned(Str(result))

\* convertUUIDFormat(uuid, options)
convertUUIDFormat(x, o) ==
    IF x.t # "string" THEN Raised("TypeError")
    ELSE
    LET normalized == toLowerCase(StripDashes(x.s))
        standard   == Regroup(normalized)
        undashed   == IF Option(o, "removeDashes") THEN StripDashes(standard) ELSE standard
        result     == IF Option(o, "uppercase") THEN toUpperCase(undashed) ELSE undashed
    IN  IF Len(normalized) # 32 THEN Raised("Invalid UUID length")
        ELSE IF ~validate(Str(standard)) THEN Raised("Invalid UUID format")
        ELSE Returned(Str(result))

----------------------------------------------------------------------------
(* utils.js: statistics                                                    *)

\* typeof uuidData === 'object' ? uuidData.uuid : uuidData; reading .uuid of null
\* raises, and an object without the key gives undefined
Undefined == [t |-> "undefined", s |-> <<>>]

ElementThrows(uuidData) == uuidData.t = "null"

ElementOf(uuidData) ==
    IF uuidData.t = "object"
        THEN (IF "uuid" \in DOMAIN uuidData THEN uuidData.uuid ELSE Undefined)
        ELSE uuidData

\* s.replace(/(.{8})(.{4})(.{4})(.{4})(.{12})/, '$1-$2-$3-$4-$5'): the first 32
\* characters are regrouped, a shorter string is left as it is
RegroupFirst(s) ==
    IF Len(s) >= 32 THEN Regroup(Slice(s, 0, 32)) \o Slice(s, 32, Len(s)) ELSE s

\* a count that stays 1 once the key exists
Increment_once(obj, key) ==
    IF key \in DOMAIN obj THEN obj ELSE obj @@ (key :> 1)

\* obj[key] = (obj[key] || 0) + 1
Increment(obj, key) ==
    IF key \in DOMAIN obj THEN [obj EXCEPT ![key] = @ + 1] ELSE obj @@ (key :> 1)

\* one pass of the loop body over an element that is a string
CountElement(stats, s) ==
    IF ~validate(Str(RegroupFirst(StripDashes(s)))) THEN stats
    ELSE LET analysis == analyzeUUID(Str(s)).value
         IN  IF analysis.valid
                 THEN [stats EXCEPT !.versions = Increment(@, analysis.version),
                                    !.formats  = Increment(@, analysis.format),
                                    !.variants = Increment(@, analysis.variant)]
                 ELSE stats

RECURSIVE StatisticsLoop(_, _, _)
StatisticsLoop(array, i, stats) ==
    IF i > Len(array) THEN Returned(stats)
    ELSE IF ElementThrows(array[i]) \/ ElementOf(array[i]).t # "string" THEN Raised("TypeError")
    ELSE StatisticsLoop(array, i + 1, CountElement(stats, ElementOf(array[i]).s))

\* generateStatistics(uuids)
generateStatistics(array) ==
    StatisticsLoop(array, 1,
                   [total    |-> Len(array),
                    versions |-> <<>>,
                    formats  |-> [standard |-> 0, compact |-> 0],
                    variants |-> <<>>])

----------------------------------------------------------------------------
(* utils.js: the batch operations                                          *)

\* how many of the results are valid
ValidCount(results) == Cardinality({i \in 1..Len(results) : results[i].valid})

\* one result of batchValidate: { uuid, valid, version: valid ? getUUIDVersion(uuid) : null }
ValidateEntry(x) ==
    [uuid    |-> x,
     valid   |-> validateUUID(x),
     version |-> IF validateUUID(x) THEN getUUIDVersion(x) ELSE JsNull]

\* batchValidate giving up at the first element that is not valid
batchValidate_stopAtInvalid(array) ==
    LET all     == [i \in 1..Len(array) |-> ValidateEntry(array[i])]
        bad     == {i \in 1..Len(array) : ~all[i].valid}
        results == IF bad = {} THEN all
                   ELSE SubSeq(all, 1, (CHOOSE i \in bad : \A j \in bad : i <= j) - 1)
    IN  Returned([total   |-> Len(array),
                  valid   |-> ValidCount(results),
                  invalid |-> Len(results) - ValidCount(results),
                  results |-> results])

\* batchValidate(uuids)
batchValidate(array) ==
    LET results == [i \in 1..Len(array) |-> ValidateEntry(array[i])]
    IN  Returned([total   |-> Len(array),
                  valid   |-> ValidCount(results),
                  invalid |-> Len(results) - ValidCount(results),
                  results |-> results])

\* results.forEach(r => { if (r.valid && r.version) versionCounts[r.version] = ... }):
\* the number 0 is falsy
RECURSIVE VersionCounts(_, _, _)
VersionCounts(results, i, versionCounts) ==
    IF i > Len(results) THEN versionCounts
    ELSE VersionCounts(results, i + 1,
                       IF results[i].valid /\ results[i].version # 0
                           THEN Increment(versionCounts, results[i].version)
                           ELSE versionCounts)

\* what batchAnalyze does with the outcomes of analyzeUUID on the elements: an
\* element analyzeUUID raises on ends the loop
AnalysisReport(array, analysed) ==
    IF \E i \in 1..Len(array) : analysed[i].kind = "throw"
        THEN Raised("TypeError")
    ELSE LET results == [i \in 1..Len(array) |-> analysed[i].value]
         IN  Returned([total            |-> Len(array),
                       valid            |-> ValidCount(results),
                       invalid          |-> Len(results) - ValidCount(results),
                       versionBreakdown |-> VersionCounts(results, 1, <<>>),
                       results          |-> results])

\* batchAnalyze(uuids)
batchAnalyze(array) == AnalysisReport(array, [i \in 1..Len(array) |-> analyzeUUID(array[i])])

\* the normal form without the change of case
Normalized_caseSensitive(s) == StripDashes(s)

\* uuid.toLowerCase().replace(/-/g, '')
Normalized(s) == StripDashes(toLowerCase(s))

\* the loop of checkCollisions from the element at index i (counted from 0) on;
\* .uuid of null and .toLowerCase of a value that is no string raise
RECURSIVE CollisionsLoop(_, _, _, _)
CollisionsLoop(array, i, seen, duplicates) ==
    IF ~(i < Len(array))
        THEN Returned([total      |-> Len(array),
                       unique     |-> Cardinality(seen),
                       duplicates |-> Len(duplicates),
                       collisions |-> duplicates])
    ELSE IF ElementThrows(array[i + 1]) \/ ElementOf(array[i + 1]).t # "string"
        THEN Raised("TypeError")
    ELSE LET element    == ElementOf(array[i + 1])
             normalized == Normalized(element.s)
         IN  IF normalized \in seen
                 THEN CollisionsLoop(array, i + 1, seen,
                                     Append(duplicates, [uuid |-> element, index |-> i]))
                 ELSE CollisionsLoop(array, i + 1, seen \cup {normalized}, duplicates)

\* the identifiers of the check_collisions calls the server has answered so far
SeenSoFar ==
    IF request.via # "calls" THEN {}
    ELSE UNION {{Normalized(x.s) : x \in {y \in {request.calls[k].args.uuids.items[n] :
                                                    n \in 1..Len(request.calls[k].args.uuids.items)} :
                                             y.t = "string"}} :
                k \in {j \in 1..Len(effects) : request.calls[effects[j]].name = "check_collisions"
                                                  /\ request.calls[effects[j]].args.uuids.t = "array"}}

\* a checkCollisions whose seen set is kept by the module from call to call
checkCollisions_sharedSeen(array) == CollisionsLoop(array, 0, SeenSoFar, <<>>)

\* checkCollisions(uuids)
checkCollisions(array) == CollisionsLoop(array, 0, {}, <<>>)

----------------------------------------------------------------------------
(* The arguments the functions are called with.                            *)

\* the largest seed of the generated time fields; seed 1 gives the time fields
\* of the documented sample 6fa459ea-ee8a-11ed-a05b-0242ac120003
MaxSeed == 3

Hex4(n) == <<Digit(n \div 4096), Digit((n \div 256) % 16), Digit((n \div 16) % 16), Digit(n % 16)>>

Hex3(n) == <<Digit((n \div 256) % 16), Digit((n \div 16) % 16), Digit(n % 16)>>

TimeFields(low, mid, high) == [low |-> low, mid |-> mid, high |-> high]

SeededTime(seed) ==
    TimeFields(Hex4((seed * 28580) % 65536) \o Hex4((seed * 23018) % 65536),
               Hex4((seed * 61066) % 65536),
               Hex3((seed * 493) % 4096))

\* count 0, count 1, the Unix epoch exactly, one tick before it, the largest count
FixedTimes ==
    { TimeFields(<<"0","0","0","0","0","0","0","0">>, <<"0","0","0","0">>, <<"0","0","0">>),
      TimeFields(<<"0","0","0","0","0","0","0","1">>, <<"0","0","0","0">>, <<"0","0","0">>),
      TimeFields(<<"1","3","8","1","4","0","0","0">>, <<"1","d","d","2">>, <<"1","b","2">>),
      TimeFields(<<"1","3","8","1","3","f","f","f">>, <<"1","d","d","2">>, <<"1","b","2">>),
      TimeFields(<<"f","f","f","f","f","f","f","f">>, <<"f","f","f","f">>, <<"f","f","f">>) }

TimeSamples == FixedTimes \cup {SeededTime(seed) : seed \in 1..MaxSeed}

\* node and clock sequence digits of the documented sample
NodeDigits == <<"0","5","b","0","2","4","2","a","c","1","2","0","0","0","3">>

\* 32 hexadecimal digits: time fields, version digit, variant digit, the rest
DigitsOf(time, ver, var) ==
    time.low \o time.mid \o <<Digit(ver)>> \o time.high \o <<Digit(var)>> \o NodeDigits

Repeat(c, k) == [i \in 1..k |-> c]

DocumentedV4 == <<"f","4","7","a","c","1","0","b","5","8","c","c","4","3","7","2","a","5","6","7","0","e","0","2","b","2","c","3","d","4","7","9">>

DocumentedV5 == <<"c","f","b","f","f","0","d","1","9","3","7","5","5","6","8","5","9","6","8","c","4","8","c","e","8","b","1","5","a","e","1","7">>

\* every version digit with every variant digit, on the documented time fields
GridDigits == {DigitsOf(SeededTime(1), ver, var) : ver \in 0..15, var \in 0..15}

\* the time samples as version 1 and 6, variant 0 and 9; the all-zero and all-f
\* identifiers; the documented version 4 and version 5 samples
SampleDigits ==
    {DigitsOf(time, ver, var) : time \in TimeSamples, ver \in {1, 6}, var \in {0, 9}}
        \cup {DigitsOf(SeededTime(1), 1, 10)}
        \cup {Repeat("0", 32), Repeat("f", 32), DocumentedV4, DocumentedV5}

Renderings == {"standard", "upper", "compact", "compactUpper", "shifted", "trailing"}

\* the characters d in groups of 8-4-4-4 and the rest
Grouped(d) == Regroup(d) \o Slice(d, 32, Len(d))

\* one way of writing the characters d, 32 digits as a rule
Render(d, how) ==
    CASE how = "standard"     -> Grouped(d)
      [] how = "upper"        -> toUpperCase(Grouped(d))
      [] how = "compact"      -> d
      [] how = "compactUpper" -> toUpperCase(d)
      [] how = "shifted"      -> Slice(d, 0, 4) \o <<"-">> \o Slice(d, 4, 30) \o <<"-", "-">> \o Slice(d, 30, Len(d))
      [] how = "trailing"     -> Grouped(d) \o <<"-">>

\* strings that are no identifier: empty, words, a digit too few or too many,
\* a letter that is no hexadecimal digit, a dash in place of a digit
Garbage ==
    { <<>>, <<"n","o","t","-","a","-","u","u","i","d">>, <<"i","n","v","a","l","i","d","-","u","u","i","d">>,
      Regroup(Slice(DocumentedV4, 0, 31)),
      Regroup(DocumentedV4) \o <<"0">>,
      Slice(DocumentedV4, 0, 31),
      Regroup(<<"g">> \o Slice(DocumentedV4, 1, 32)),
      Slice(DocumentedV4, 0, 31) \o <<"G">>,
      Regroup(Slice(DocumentedV4, 0, 31) \o <<"-">>),
      <<" ">> \o Regroup(DocumentedV4) }

Inputs ==
    {Str(Render(d, how)) : d \in GridDigits, how \in {"standard", "compact"}}
        \cup {Str(Render(d, how)) : d \in SampleDigits, how \in Renderings}
        \cup {Str(g) : g \in Garbage} \cup NonStrings

Flags == {<<>>, [uppercase |-> TRUE], [uppercase |-> FALSE]}

MoreFlags == {<<>>, [removeDashes |-> TRUE], [removeDashes |-> FALSE]}

OptionSets == {a @@ b : a \in Flags, b \in MoreFlags}

----------------------------------------------------------------------------
(* A behaviour is one call of an exported function on the argument drawn   *)
(* in Init: the functions read nothing but their arguments, so a call      *)
(* after another call reaches no state that a first call does not reach.   *)

Init ==
    /\ regexEdition \in RegexEditions
    /\ uuid \in Inputs
    /\ uuids = <<>>
    /\ options = <<>>
    /\ fn = "none"
    /\ outcome = NoOutcome
    /\ request = NoRequest
    /\ effects = <<>>

CallValidateUUID ==
    /\ fn = "none"
    /\ fn' = "validateUUID"
    /\ outcome' = Returned(validateUUID(uuid))
    /\ options' = <<>>
    /\ uuids' = <<>>
    /\ UNCHANGED <<regexEdition, uuid, request, effects>>

CallGetUUIDVersion ==
    /\ fn = "none"
    /\ fn' = "getUUIDVersion"
    /\ outcome' = Returned(getUUIDVersion(uuid))
    /\ options' = <<>>
    /\ uuids' = <<>>
    /\ UNCHANGED <<regexEdition, uuid, request, effects>>

CallAnalyzeUUID ==
    /\ fn = "none"
    /\ fn' = "analyzeUUID"
    /\ outcome' = analyzeUUID(uuid)
    /\ options' = <<>>
    /\ uuids' = <<>>
    /\ UNCHANGED <<regexEdition, uuid, request, effects>>

CallConvertUUIDFormat ==
    \E o \in OptionSets :
        /\ fn = "none"
        /\ fn' = "convertUUIDFormat"
        /\ outcome' = convertUUIDFormat(uuid, o)
        /\ options' = o
        /\ uuids' = <<>>
        /\ UNCHANGED <<regexEdition, uuid, request, effects>>

\* another way of writing the characters a value has besides its dashes
Rewritten(x, how) == Str(Render(StripDashes(x.s), how))

\* the array holds the argument alone, or the argument and a rewriting of it
CallGenerateStatistics ==
    \E array \in {<<uuid>>} \cup {<<uuid, Rewritten(uuid, how)>> : how \in Renderings} :
        /\ fn = "none"
        /\ fn' = "generateStatistics"
        /\ outcome' = generateStatistics(array)
        /\ uuids' = array
        /\ options' = <<>>
        /\ UNCHANGED <<regexEdition, uuid, request, effects>>

Next ==
    \/ CallValidateUUID
    \/ CallGetUUIDVersion
    \/ CallAnalyzeUUID
    \/ CallConvertUUIDFormat
    \/ CallGenerateStatistics

Spec == Init /\ [][Next]_vars

----------------------------------------------------------------------------
(* The batch operations on arrays of up to MaxBatch elements.              *)

\* the longest array a batch operation is given
MaxBatch == 3

\* the documented version 1 sample 6fa459ea-ee8a-11ed-a05b-0242ac120003
SampleV1 == DigitsOf(SeededTime(1), 1, 10)

\* an object carrying an identifier, as the generate operation produces them
Wrapped(x) == [t |-> "object", s |-> <<>>, uuid |-> x]

\* the documented samples in three writings, the all-zero identifier, strings
\* that are no identifier, and elements that are no string
BatchElements ==
    { Str(Regroup(DocumentedV4)), Str(toUpperCase(Regroup(DocumentedV4))), Str(DocumentedV4),
      Str(Regroup(SampleV1)), Str(Regroup(DocumentedV5)), Str(Regroup(Repeat("0", 32))),
      Str(<<"i","n","v","a","l","i","d","-","u","u","i","d">>), Str(<<>>),
      JsNull, [t |-> "number", s |-> <<>>], [t |-> "object", s |-> <<>>],
      Wrapped(Str(Regroup(DocumentedV4))) }

RECURSIVE ArraysOf(_, _)
ArraysOf(elements, n) ==
    IF n = 0 THEN {<<>>}
    ELSE ArraysOf(elements, n - 1)
            \cup {Append(a, e) : a \in {b \in ArraysOf(elements, n - 1) : Len(b) = n - 1}, e \in elements}

BatchArrays == ArraysOf(BatchElements, MaxBatch)

InitBatch ==
    /\ regexEdition \in RegexEditions
    /\ uuids \in BatchArrays
    /\ uuid = Undefined
    /\ options = <<>>
    /\ fn = "none"
    /\ outcome = NoOutcome
    /\ request = NoRequest
    /\ effects = <<>>

RunBatchValidate ==
    /\ fn = "none"
    /\ fn' = "batchValidate"
    /\ outcome' = batchValidate(uuids)
    /\ UNCHANGED <<regexEdition, uuid, uuids, options, request, effects>>

RunBatchAnalyze ==
    /\ fn = "none"
    /\ fn' = "batchAnalyze"
    /\ outcome' = batchAnalyze(uuids)
    /\ UNCHANGED <<regexEdition, uuid, uuids, options, request, effects>>

RunCheckCollisions ==
    /\ fn = "none"
    /\ fn' = "checkCollisions"
    /\ outcome' = checkCollisions(uuids)
    /\ UNCHANGED <<regexEdition, uuid, uuids, options, request, effects>>

RunGenerateStatistics ==
    /\ fn = "none"
    /\ fn' = "generateStatistics"
    /\ outcome' = generateStatistics(uuids)
    /\ UNCHANGED <<regexEdition, uuid, uuids, options, request, effects>>

NextBatch ==
    \/ RunBatchValidate
    \/ RunBatchAnalyze
    \/ RunCheckCollisions
    \/ RunGenerateStatistics

SpecBatch == InitBatch /\ [][NextBatch]_vars

----------------------------------------------------------------------------
(* checkCollisions, one pass of its loop at a time.                        *)

\* the locals of a call in progress: the loop index, seen and duplicates
Frame(i, seen, duplicates) == [kind |-> "running", i |-> i, seen |-> seen, duplicates |-> duplicates]

\* a pass that records nothing when the element was seen before
CollisionsPass_dropsDuplicate(array, frame) ==
    IF ElementThrows(array[frame.i + 1]) \/ ElementOf(array[frame.i + 1]).t # "string"
        THEN Raised("TypeError")
    ELSE Frame(frame.i + 1, frame.seen \cup {Normalized(ElementOf(array[frame.i + 1]).s)}, frame.duplicates)

\* the body of the for loop, run for the element at index frame.i
CollisionsPass(array, frame) ==
    IF ElementThrows(array[frame.i + 1]) \/ ElementOf(array[frame.i + 1]).t # "string"
        THEN Raised("TypeError")
    ELSE LET element    == ElementOf(array[frame.i + 1])
             normalized == Normalized(element.s)
         IN  IF normalized \in frame.seen
                 THEN Frame(frame.i + 1, frame.seen,
                            Append(frame.duplicates, [uuid |-> element, index |-> frame.i]))
                 ELSE Frame(frame.i + 1, frame.seen \cup {normalized}, frame.duplicates)

\* the return statement
CollisionsReport(array, frame) ==
    Returned([total      |-> Len(array),
              unique     |-> Cardinality(frame.seen),
              duplicates |-> Len(frame.duplicates),
              collisions |-> frame.duplicates])

\* const seen = new Set(); const duplicates = []; let i = 0
EnterCheckCollisions ==
    /\ fn = "none"
    /\ fn' = "checkCollisions"
    /\ outcome' = Frame(0, {}, <<>>)
    /\ UNCHANGED <<regexEdition, uuid, uuids, options, request, effects>>

\* i < uuids.length: one pass of the loop
PassCheckCollisions ==
    /\ fn = "checkCollisions"
    /\ outcome.kind = "running"
    /\ outcome.i < Len(uuids)
    /\ outcome' = CollisionsPass(uuids, outcome)
    /\ UNCHANGED <<regexEdition, uuid, uuids, options, fn, request, effects>>

\* the loop is over: the report is returned
LeaveCheckCollisions ==
    /\ fn = "checkCollisions"
    /\ outcome.kind = "running"
    /\ ~(outcome.i < Len(uuids))
    /\ outcome' = CollisionsReport(uuids, outcome)
    /\ UNCHANGED <<regexEdition, uuid, uuids, options, fn, request, effects>>

NextLoop ==
    \/ EnterCheckCollisions
    \/ PassCheckCollisions
    \/ LeaveCheckCollisions

SpecLoop == InitBatch /\ [][NextLoop]_vars

----------------------------------------------------------------------------
(* Values the two interfaces are given, and what JavaScript does with them. *)

\* an array value; the elements of a batch are the sequence items
Arr(items) == [t |-> "array", items |-> items]

\* if (v), !v
Truthy(v) ==
    CASE v.t = "string" -> v.s # <<>>
      [] v.t = "number" -> v.n # 0
      [] v.t \in {"null", "undefined"} -> FALSE
      [] OTHER -> TRUE

\* obj.key, and const { key = d } = obj
Get(obj, key) == IF key \in DOMAIN obj THEN obj[key] ELSE Undefined

Default(obj, key, d) == IF key \in DOMAIN obj THEN obj[key] ELSE d

\* for (const x of v) and v[i]: an array gives its elements, a string its
\* characters; null, undefined, numbers and plain objects are not iterable
Iterable(v) == v.t \in {"array", "string"}

ItemsOf(v) == IF v.t = "array" THEN v.items ELSE [i \in 1..Len(v.s) |-> Str(<<v.s[i]>>)]

\* the batch functions on whatever value they are handed: what is not iterable
\* raises in the for-of loop, and reading .length raises on null and undefined
batchValidateOf(v) == IF Iterable(v) THEN batchValidate(ItemsOf(v)) ELSE Raised("TypeError")

batchAnalyzeOf(v) == IF Iterable(v) THEN batchAnalyze(ItemsOf(v)) ELSE Raised("TypeError")

generateStatisticsOf(v) == IF Iterable(v) THEN generateStatistics(ItemsOf(v)) ELSE Raised("TypeError")

\* checkCollisions loops while i < uuids.length: on a number or a plain object
\* the length is undefined and the loop body never runs
checkCollisionsOf(v) ==
    IF Iterable(v) THEN checkCollisions(ItemsOf(v))
    ELSE IF v.t \in {"null", "undefined"} THEN Raised("TypeError")
    ELSE Returned([total |-> Undefined, unique |-> 0, duplicates |-> 0, collisions |-> <<>>])

\* JSON.stringify(value, null, 2) of an object: the text of its own properties,
\* leaving out those whose value is undefined (maybeUndefined names the
\* properties that hold a JavaScript value which can be undefined)
JSONstringify(value, maybeUndefined) ==
    [json |-> [k \in DOMAIN value \ {u \in maybeUndefined \cap DOMAIN value : value[u].t = "undefined"}
                  |-> value[k]]]

\* a boolean held by a property
Bool(b) == [t |-> "boolean", b |-> b]

\* an object whose own properties are enumerated (Object.keys, Object.values,
\* JSON.stringify): its entries in insertion order, keys spelled out
Entry(key, value) == [key |-> key, value |-> value]

Obj(entries) == [t |-> "object", entries |-> entries]

ObjectKeys(item) == [i \in 1..Len(item.entries) |-> Str(item.entries[i].key)]

ObjectValues(item) == [i \in 1..Len(item.entries) |-> item.entries[i].value]

\* item.key: undefined when the object has no such property
Prop(item, key) ==
    IF \E i \in 1..Len(item.entries) : item.entries[i].key = key
        THEN item.entries[CHOOSE i \in 1..Len(item.entries) : item.entries[i].key = key].value
        ELSE Undefined

\* the characters of the words the driver puts into generated items
Spell ==
    [w \in {"v1", "v4", "v5", "standard", "compact", "uuid", "version", "timestamp", "format"} |->
        CASE w = "v1" -> <<"v","1">>
          [] w = "v4" -> <<"v","4">>
          [] w = "v5" -> <<"v","5">>
          [] w = "standard"  -> <<"s","t","a","n","d","a","r","d">>
          [] w = "compact"   -> <<"c","o","m","p","a","c","t">>
          [] w = "uuid"      -> <<"u","u","i","d">>
          [] w = "version"   -> <<"v","e","r","s","i","o","n">>
          [] w = "timestamp" -> <<"t","i","m","e","s","t","a","m","p">>
          [] w = "format"    -> <<"f","o","r","m","a","t">>]

----------------------------------------------------------------------------
(* Generation (main.js and the tool server, with the uuid package).        *)

DNS == <<"6","b","a","7","b","8","1","0","-","9","d","a","d","-","1","1","d","1","-","8","0","b","4","-","0","0","c","0","4","f","d","4","3","0","c","8">>

\* NAMESPACES: DNS, URL, OID and X500 differ in the eighth digit
NAMESPACES ==
    (<<"D","N","S">> :> DNS)
        @@ (<<"U","R","L">> :> [DNS EXCEPT ![8] = "1"])
        @@ (<<"O","I","D">> :> [DNS EXCEPT ![8] = "2"])
        @@ (<<"X","5","0","0">> :> [DNS EXCEPT ![8] = "4"])

\* NAMESPACES[namespace] || namespace, replaced by the DNS namespace when it
\* does not match /^[0-9a-f]{8}-[0-9a-f]{4}-[0-9a-f]{4}-[0-9a-f]{4}-[0-9a-f]{12}$/i
NamespaceOf(namespace) ==
    LET ns == IF namespace.s \in DOMAIN NAMESPACES THEN NAMESPACES[namespace.s] ELSE namespace.s
    IN  IF IsDashedHex(ns) THEN ns ELSE DNS

\* uuidv1() and uuidv4(): the k-th identifier drawn in a run whose clock and
\* random source started from seed; lower case, dashed, variant 8-b
uuidv1(seed, k) == Regroup(DigitsOf(SeededTime(1 + ((seed + k) % 1000)), 1, 8 + ((seed + k) % 4)))

uuidv4(seed, k) == Regroup(DigitsOf(SeededTime(1 + ((7 * seed + 3 * k) % 1000)), 4, 8 + (k % 4)))

\* uuidv5(name, namespace): a fixed function of the name and the namespace (the
\* SHA-1 digest is stood for by digits of the namespace and the name's length)
uuidv5(name, namespace) ==
    LET d == StripDashes(toLowerCase(namespace))
    IN  Regroup(<<Digit(Len(name) % 16)>> \o Slice(d, 1, 12) \o <<"5">> \o Slice(d, 13, 16)
                    \o <<"8">> \o Slice(d, 17, 32))

\* formatUUID(uuid, { uppercase, removeDashes })
formatUUID(id, uppercase, removeDashes) ==
    LET undashed == IF removeDashes THEN StripDashes(id) ELSE id
    IN  IF uppercase THEN toUpperCase(undashed) ELSE undashed

SupportedVersions == {"v1", "v4", "v5"}

\* generateUUID(version, config) at the k-th pass of the loop
generateUUID(rule, k) ==
    formatUUID(CASE rule.version = "v1" -> uuidv1(rule.seed, k)
                 [] rule.version = "v4" -> uuidv4(rule.seed, k)
                 [] rule.version = "v5" -> uuidv5(IF Truthy(rule.name) THEN rule.name.s
                                                  ELSE <<"d","e","f","a","u","l","t","-","n","a","m","e">>,
                                                  NamespaceOf(rule.namespace)),
               rule.uppercase, rule.removeDashes)

\* new Date() at the k-th pass: a clock that started at seed milliseconds after
\* 2023-05-09T16:56:26.000Z and does not run backwards
ClockAt(seed, k) == Big(FALSE, <<6000 + seed + (k % 1000), 5138, 6836, 1>>)

\* generateMetadata(uuid, version)
generateMetadata(id, uuidVersion, seed, k) ==
    Obj(<<Entry(Spell["uuid"], Str(id)),
          Entry(Spell["version"], Str(Spell[uuidVersion])),
          Entry(Spell["timestamp"], Str(toISOString(ClockAt(seed, k)))),
          Entry(Spell["format"], Str(Spell[FormatOf(id)]))>>)

\* an array built by the generation loop, kept as its length and the rule that
\* gives each element (count may be 100000)
Generated(length, rule) == [t |-> "array", length |-> length, rule |-> rule]

\* the element at index k, counted from 0
ItemAt(array, k) ==
    LET id == generateUUID(array.rule, k)
    IN  CASE array.rule.shape = "string"   -> Str(id)
          [] array.rule.shape = "metadata" -> generateMetadata(id, array.rule.version, array.rule.seed, k)
          [] array.rule.shape = "object"   -> Obj(<<Entry(Spell["uuid"], Str(id))>>)

\* count < 1 || count > max: null counts as 0 and a string that is no number
\* compares false both ways
CountOutOfRange(count, max) ==
    CASE count.t = "number" -> count.n < 1 \/ count.n > max
      [] count.t = "null"   -> TRUE
      [] OTHER              -> FALSE

\* how often for (let i = 0; i < count; i++) runs
Iterations(count) == IF count.t = "number" /\ count.n > 0 THEN count.n ELSE 0

GenerationRule(uuidVersion, args, seed, shape) ==
    [version      |-> uuidVersion,
     seed         |-> seed,
     name         |-> Get(args, "name"),
     namespace    |-> Default(args, "namespace", Str(<<"D","N","S">>)),
     uppercase    |-> Default(args, "uppercase", FALSE),
     removeDashes |-> Default(args, "removeDashes", FALSE),
     shape        |-> shape]

----------------------------------------------------------------------------
(* The tool server (part_001): the CallToolRequest handler.                *)

ToolNames ==
    {"generate_uuid", "validate_uuid", "analyze_uuid", "convert_uuid_format",
     "batch_validate", "batch_analyze", "check_collisions", "generate_statistics"}

\* case 'generate_uuid'
GenerateUuidTool(args, seed) ==
    LET uuidVersion == Default(args, "version", "v4")
        count       == Default(args, "count", Num(1))
    IN  IF CountOutOfRange(count, 10000)
            THEN Raised("Count must be between 1 and 10,000")
        ELSE IF uuidVersion = "v5" /\ ~Truthy(Get(args, "name"))
            THEN Raised("Name is required for UUID v5")
        ELSE IF Iterations(count) > 0 /\ uuidVersion \notin SupportedVersions
            THEN Raised("Unsupported UUID version: " \o uuidVersion)
        ELSE Returned(JSONstringify(
                 [count   |-> Iterations(count),
                  version |-> uuidVersion,
                  uuids   |-> Generated(Iterations(count),
                                        GenerationRule(uuidVersion, args, seed, "string"))], {}))

\* case 'validate_uuid'
ValidateUuidTool(args) ==
    LET id    == Get(args, "uuid")
        valid == validateUUID(id)
    IN  Returned(JSONstringify(
            [uuid    |-> id,
             valid   |-> valid,
             version |-> IF valid THEN getUUIDVersion(id) ELSE JsNull], {"uuid"}))

\* the text of a report, or the error the function raised
Serialize(tried, maybeUndefined) ==
    IF tried.kind = "throw" THEN tried
    ELSE Returned(JSONstringify(tried.value, maybeUndefined))

\* case 'analyze_uuid'
AnalyzeUuidTool(args) == Serialize(analyzeUUID(Get(args, "uuid")), {})

\* catch (error) { throw new Error(`Conversion failed: ${error.message}`) }
Rewrap(tried) ==
    IF tried.kind = "throw" THEN Raised("Conversion failed: " \o tried.message) ELSE tried

\* { original, converted, options }
ConversionResult(id, converted, opts) ==
    IF converted.kind = "throw" THEN converted
    ELSE Returned([original |-> id, converted |-> converted.value, options |-> opts])

\* const { uppercase = false, removeDashes = false } = args
ConvertOptions(args) ==
    [uppercase    |-> Default(args, "uppercase", FALSE),
     removeDashes |-> Default(args, "removeDashes", FALSE)]

\* case 'convert_uuid_format'
ConvertUuidFormatTool(args) ==
    Rewrap(Serialize(ConversionResult(Get(args, "uuid"),
                                      convertUUIDFormat(Get(args, "uuid"), ConvertOptions(args)),
                                      ConvertOptions(args)), {}))

\* the body of the try block: the text to answer with, or the error raised;
\* destructuring arguments that are missing raises
ToolOutcome(name, args, seed) ==
    IF name \notin ToolNames THEN Raised("Unknown tool: " \o name)
    ELSE IF args \in {Undefined, JsNull} THEN Raised("TypeError")
    ELSE CASE name = "generate_uuid"       -> GenerateUuidTool(args, seed)
           [] name = "validate_uuid"       -> ValidateUuidTool(args)
           [] name = "analyze_uuid"        -> AnalyzeUuidTool(args)
           [] name = "convert_uuid_format" -> ConvertUuidFormatTool(args)
           [] name = "batch_validate"      -> Serialize(batchValidateOf(Get(args, "uuids")), {})
           [] name = "batch_analyze"       -> Serialize(batchAnalyzeOf(Get(args, "uuids")), {})
           [] name = "check_collisions"    ->
                  Serialize(checkCollisionsOf(Get(args, "uuids")),
                            IF Iterable(Get(args, "uuids")) THEN {} ELSE {"total"})
           [] name = "generate_statistics" -> Serialize(generateStatisticsOf(Get(args, "uuids")), {})

TextContent(text) == <<[type |-> "text", text |-> text]>>

\* a handler without the catch clause: what is raised leaves the handler
Respond_uncaught(tried) ==
    IF tried.kind = "return" THEN Returned([content |-> TextContent(tried.value)])
    ELSE tried

\* try { ... return { content } } catch (error) { return { content, isError: true } }
Respond(tried) ==
    IF tried.kind = "return" THEN Returned([content |-> TextContent(tried.value)])
    ELSE Returned([content |-> TextContent(JSONstringify([error |-> tried.message], {})),
                   isError |-> TRUE])

----------------------------------------------------------------------------
(* exportData (main.js): the text written for the csv and text formats.    *)

\* val.includes(c)
Includes(s, c) == \E i \in 1..Len(s) : s[i] = c

RECURSIVE Concat(_)
Concat(seqs) == IF seqs = <<>> THEN <<>> ELSE Head(seqs) \o Concat(Tail(seqs))

RECURSIVE JoinText(_), join(_, _)

\* the text a value contributes to Array.prototype.join: a string itself, a
\* number its decimal digits, a boolean true or false, null and undefined
\* the empty string, an array its elements joined by commas, and any other
\* object [object Object]
JoinText(v) ==
    CASE v.t = "string"  -> v.s
      [] v.t = "number"  -> IF v.n < 0 THEN <<"-">> \o Decimal(-v.n) ELSE Decimal(v.n)
      [] v.t = "boolean" -> IF v.b THEN <<"t","r","u","e">> ELSE <<"f","a","l","s","e">>
      [] v.t = "array"   -> join(v.items, <<",">>)
      [] v.t = "object"  -> <<"[","o","b","j","e","c","t"," ","O","b","j","e","c","t","]">>
      [] OTHER           -> <<>>

\* parts.join(sep)
join(parts, sep) ==
    IF parts = <<>> THEN <<>>
    ELSE IF Len(parts) = 1 THEN JoinText(parts[1])
    ELSE JoinText(parts[1]) \o sep \o join(Tail(parts), sep)

\* JSON.stringify of a string: in double quotes, with a backslash before each
\* double quote and backslash, and a line feed written as \n
JSONquote(s) ==
    <<"\"">> \o Concat([i \in 1..Len(s) |->
                          CASE s[i] = "\"" -> <<"\\", "\"">>
                            [] s[i] = "\\" -> <<"\\", "\\">>
                            [] s[i] = "\n" -> <<"\\", "n">>
                            [] OTHER       -> <<s[i]>>]) \o <<"\"">>

\* JSON.stringify(val) without indentation, character by character: the
\* properties of an object in order, leaving out those that are undefined;
\* in an array undefined is written null
RECURSIVE JSONchars(_)
JSONchars(val) ==
    CASE val.t = "string"  -> JSONquote(val.s)
      [] val.t \in {"number", "boolean"} -> JoinText(val)
      [] val.t = "object"  ->
             LET kept == SelectSeq(val.entries, LAMBDA e : e.value.t # "undefined")
             IN  <<"{">> \o join([i \in 1..Len(kept) |->
                                     Str(JSONquote(kept[i].key) \o <<":">> \o JSONchars(kept[i].value))],
                                 <<",">>) \o <<"}">>
      [] val.t = "array"   ->
             <<"[">> \o join([i \in 1..Len(val.items) |-> Str(JSONchars(val.items[i]))], <<",">>)
                 \o <<"]">>
      [] OTHER             -> <<"n","u","l","l">>

\* typeof val === 'object' && val !== null
IsObject(val) == val.t \in {"object", "array"}

\* a replace that leaves embedded quotes as they are
DoubleQuotes_kept(s) == s

\* val.replace(/"/g, '""')
DoubleQuotes(s) == Concat([i \in 1..Len(s) |-> IF s[i] = "\"" THEN <<"\"", "\"">> ELSE <<s[i]>>])

\* the callback of Object.values(item).map in the csv branch
csvCell(given) ==
    LET val == IF IsObject(given) THEN Str(JSONchars(given)) ELSE given
    IN  IF val.t = "string" /\ (Includes(val.s, ",") \/ Includes(val.s, "\""))
            THEN Str(<<"\"">> \o DoubleQuotes(val.s) \o <<"\"">>)
            ELSE val

\* the callback of data.map in the csv branch: one row
csvRow(item) ==
    Str(join([i \in 1..Len(item.entries) |-> csvCell(ObjectValues(item)[i])], <<",">>))

\* the callback of data.map in the text branch: one line
textLine(item) ==
    IF IsObject(item)
        THEN (IF Truthy(Prop(item, Spell["uuid"])) THEN Prop(item, Spell["uuid"])
              ELSE Str(JSONchars(item)))
        ELSE item

\* Array.isArray(data): reports and single results are plain objects
IsArray(data) == "t" \in DOMAIN data /\ data.t = "array"

\* data.length and data[k] of an array, written out or generated
LengthOf(array) == IF "items" \in DOMAIN array THEN Len(array.items) ELSE array.length

ElementAt(array, k) == IF "items" \in DOMAIN array THEN array.items[k + 1] ELSE ItemAt(array, k)

\* the string [...first, ...data.map(each)].join('\n'), kept as its parts
\* (data may hold 100000 items)
Joined(first, data, each) == [t |-> "joined", first |-> first, data |-> data, each |-> each]

PartCount(text) == Len(text.first) + LengthOf(text.data)

\* the part at index k, counted from 0
PartAt(text, k) ==
    IF k < Len(text.first) THEN text.first[k + 1]
    ELSE LET item == ElementAt(text.data, k - Len(text.first))
         IN  IF text.each = "csvRow" THEN csvRow(item) ELSE textLine(item)

\* the characters of the joined string
CharsOf(text) == join([k \in 1..PartCount(text) |-> PartAt(text, k - 1)], <<"\n">>)

\* csvContent: header and rows when data is an array whose first element is
\* an object, JSON.stringify(data) otherwise
HeadedBy(data, first) ==
    IF IsObject(first)
        THEN Joined(<<Str(join(ObjectKeys(first), <<",">>))>>, data, "csvRow")
        ELSE [json |-> data, indent |-> 0]

csvContent(data) ==
    HeadedBy(data, IF IsArray(data) /\ LengthOf(data) > 0 THEN ElementAt(data, 0) ELSE Undefined)

\* textContent: one line per element of an array, JSON.stringify(data, null, 2)
\* otherwise
textContent(data) ==
    IF IsArray(data) THEN Joined(<<>>, data, "textLine") ELSE JSONstringify(data, {})

----------------------------------------------------------------------------
(* The batch-job driver (main.js): one run of Actor.main.                  *)

\* what a run leaves behind and how it ends
Run(written, result) == [effects |-> written, outcome |-> result]

Failed(message) == Run(<<>>, Raised(message))

\* Actor.pushData(items)
PushData(items) == [op |-> "pushData", items |-> items]

\* keyValueStore.setValue(key, value, options)
SetValue(key, value, opts) == [op |-> "setValue", key |-> key, value |-> value, options |-> opts]

\* exportData(data, format, keyName): the write to the key-value store
exportData(data, format, keyName) ==
    CASE format = "json" -> Returned(SetValue(keyName, data, <<>>))
      [] format = "csv"  ->
             Returned(SetValue(keyName \o ".csv", csvContent(data), [contentType |-> "text/csv"]))
      [] format = "text" ->
             Returned(SetValue(keyName \o ".txt", textContent(data), [contentType |-> "text/plain"]))
      [] OTHER           -> Raised("Unsupported output format: " \o format)

\* a handler that exports first and pushes afterwards
PushThenExport_exportFirst(items, data, format, keyName) ==
    LET exported == exportData(data, format, keyName)
    IN  IF exported.kind = "throw" THEN Run(<<>>, exported)
        ELSE Run(<<exported.value, PushData(items)>>, Returned("Operation completed successfully!"))

\* await Actor.pushData(items); await exportData(data, outputFormat, keyName)
PushThenExport(items, data, format, keyName) ==
    LET exported == exportData(data, format, keyName)
    IN  IF exported.kind = "throw" THEN Run(<<PushData(items)>>, exported)
        ELSE Run(<<PushData(items), exported.value>>, Returned("Operation completed successfully!"))

OutputFormat(input) == Default(input, "outputFormat", "json")

\* handleGenerate(input)
handleGenerate(input, seed) ==
    LET uuidVersion == Default(input, "uuidVersion", "v4")
        count       == Default(input, "count", Num(10))
        shape       == IF Default(input, "includeMetadata", TRUE) /\ OutputFormat(input) = "json"
                           THEN "metadata" ELSE "object"
        generated   == Generated(Iterations(count), GenerationRule(uuidVersion, input, seed, shape))
    IN  IF CountOutOfRange(count, 100000)
            THEN Failed("Count must be between 1 and 100,000")
        ELSE IF uuidVersion = "v5" /\ ~Truthy(Get(input, "name"))
            THEN Failed("Name is required for UUID version 5")
        ELSE IF Iterations(count) > 0 /\ uuidVersion \notin SupportedVersions
            THEN Failed("Unsupported UUID version: " \o uuidVersion)
        ELSE PushThenExport(generated, generated, OutputFormat(input), "OUTPUT")

\* a handler's last steps: nothing is written when the function raised,
\* otherwise the report (or its results, one item each) is pushed and exported
Persist(tried, itemEach, format, keyName) ==
    IF tried.kind = "throw" THEN Run(<<>>, tried)
    ELSE PushThenExport(IF itemEach THEN tried.value.results ELSE <<tried.value>>,
                        tried.value, format, keyName)

\* { uuid, valid, version, message }
ValidationResult(id, valid, ver) ==
    [uuid    |-> id,
     valid   |-> valid,
     version |-> IF valid THEN ver ELSE JsNull,
     message |-> IF valid THEN "Valid UUID version " \o ToString(ver.n) ELSE "Invalid UUID"]

\* handleValidate(input)
handleValidate(input) ==
    IF ~Truthy(Get(input, "uuid")) THEN Failed("UUID is required for validation")
    ELSE Persist(Returned(ValidationResult(Get(input, "uuid"),
                                           validateUUID(Get(input, "uuid")),
                                           getUUIDVersion(Get(input, "uuid")))),
                 FALSE, OutputFormat(input), "VALIDATION_RESULT")

\* handleAnalyze(input)
handleAnalyze(input) ==
    IF ~Truthy(Get(input, "uuid")) THEN Failed("UUID is required for analysis")
    ELSE Persist(analyzeUUID(Get(input, "uuid")), FALSE, OutputFormat(input), "ANALYSIS_RESULT")

\* the catch clause of handleConvert, around what the run did so far
ConversionFailed(run) == Run(run.effects, Rewrap(run.outcome))

\* handleConvert(input): the conversion, the push and the export are all inside
\* the try block whose catch rewrites the message
handleConvert(input) ==
    IF ~Truthy(Get(input, "uuid")) THEN Failed("UUID is required for conversion")
    ELSE ConversionFailed(
             Persist(ConversionResult(Get(input, "uuid"),
                                      convertUUIDFormat(Get(input, "uuid"), ConvertOptions(input)),
                                      ConvertOptions(input)),
                     FALSE, OutputFormat(input), "CONVERSION_RESULT"))

\* !uuids || !Array.isArray(uuids) || uuids.length === 0
NoArray(v) == ~(v.t = "array" /\ Len(v.items) > 0)

\* handleBatchValidate(input)
handleBatchValidate(input) ==
    IF NoArray(Get(input, "uuids")) THEN Failed("Array of UUIDs is required for batch validation")
    ELSE Persist(batchValidate(Get(input, "uuids").items), TRUE,
                 OutputFormat(input), "BATCH_VALIDATION")

\* handleBatchAnalyze(input)
handleBatchAnalyze(input) ==
    IF NoArray(Get(input, "uuids")) THEN Failed("Array of UUIDs is required for batch analysis")
    ELSE Persist(batchAnalyze(Get(input, "uuids").items), TRUE,
                 OutputFormat(input), "BATCH_ANALYSIS")

\* handleCheckCollisions(input)
handleCheckCollisions(input) ==
    IF NoArray(Get(input, "uuids")) THEN Failed("Array of UUIDs is required for collision checking")
    ELSE Persist(checkCollisions(Get(input, "uuids").items), FALSE,
                 OutputFormat(input), "COLLISION_CHECK")

\* handleStatistics(input)
handleStatistics(input) ==
    IF NoArray(Get(input, "uuids")) THEN Failed("Array of UUIDs is required for statistics generation")
    ELSE Persist(generateStatistics(Get(input, "uuids").items), FALSE,
                 OutputFormat(input), "STATISTICS")

\* the function given to Actor.main
Main(input, seed) ==
    IF input \in {Undefined, JsNull} THEN Failed("Input is required")
    ELSE LET operation == Default(input, "operation", "generate")
         IN  CASE operation = "generate"         -> handleGenerate(input, seed)
               [] operation = "validate"         -> handleValidate(input)
               [] operation = "analyze"          -> handleAnalyze(input)
               [] operation = "convert"          -> handleConvert(input)
               [] operation = "batch_validate"   -> handleBatchValidate(input)
               [] operation = "batch_analyze"    -> handleBatchAnalyze(input)
               [] operation = "check_collisions" -> handleCheckCollisions(input)
               [] operation = "statistics"       -> handleStatistics(input)
               [] OTHER -> Failed("Unknown operation: " \o operation)

----------------------------------------------------------------------------
(* One request per behaviour: a tool call to the server or a job run.      *)

\* what a caller may pass as uuid
UuidValues ==
    { JsNull, Str(<<>>), Num(0), Num(42), [t |-> "object", s |-> <<>>],
      Str(Regroup(DocumentedV4)), Str(toUpperCase(DocumentedV4)), Str(Regroup(SampleV1)),
      Str(Regroup(Repeat("0", 32))), Str(<<"i","n","v","a","l","i","d","-","u","u","i","d">>),
      Str(Regroup(DigitsOf(SeededTime(1), 4, 12))) }

\* what a caller may pass as uuids
UuidsValues ==
    { JsNull, Str(<<>>), Str(<<"a","b","-","c">>), Num(0), Num(5), [t |-> "object", s |-> <<>>],
      Arr(<<>>),
      Arr(<<Str(Regroup(DocumentedV4))>>),
      Arr(<<Str(Regroup(DocumentedV4)), Str(<<"i","n","v","a","l","i","d","-","u","u","i","d">>)>>),
      Arr(<<Str(toUpperCase(Regroup(DocumentedV4))), Str(DocumentedV4)>>),
      Arr(<<Str(Regroup(Repeat("0", 32)))>>),
      Arr(<<Str(Regroup(DocumentedV4)), JsNull>>),
      Arr(<<Wrapped(Str(Regroup(DocumentedV4)))>>) }

Present(key, values) == {<<>>} \cup {(key :> v) : v \in values}

SingleArgs == Present("uuid", UuidValues)

ConvertArgs == {a @@ b : a \in SingleArgs, b \in {<<>>, [uppercase |-> TRUE], [removeDashes |-> TRUE]}}

BatchArgs == Present("uuids", UuidsValues)

\* the largest count of each interface and its neighbours, small counts, 0, a
\* negative count, null and a string that is no number
CountValues ==
    {Num(n) : n \in {-1, 0, 1, 2, 10000, 10001, 100000, 100001}}
        \cup {JsNull, Str(<<"m","a","n","y">>)}

NameArgs == Present("name", {Str(<<>>), Str(<<"e","x","a","m","p","l","e",".","c","o","m">>)})

NamespaceArgs ==
    Present("namespace", {Str(<<"U","R","L">>), Str(<<"n","o","n","e">>), Str(Regroup(DocumentedV4))})

\* the arguments of a generation: the version key is versionKey on this interface
GenerateArgs(versionKey) ==
    {v @@ c @@ n : v \in Present(versionKey, {"v1", "v4", "v5", "v7"}),
                   c \in Present("count", CountValues), n \in NameArgs}
        \cup {(versionKey :> "v5") @@ n @@ s @@ f :
                  n \in NameArgs, s \in NamespaceArgs,
                  f \in {<<>>, [uppercase |-> TRUE], [removeDashes |-> TRUE],
                         [uppercase |-> TRUE, removeDashes |-> TRUE]}}

ToolCall(name, args) == [via |-> "tool", name |-> name, args |-> args]

ToolCalls ==
    {ToolCall("generate_uuid", a) : a \in GenerateArgs("version")}
        \cup {ToolCall(n, a) : n \in {"validate_uuid", "analyze_uuid"}, a \in SingleArgs}
        \cup {ToolCall("convert_uuid_format", a) : a \in ConvertArgs}
        \cup {ToolCall(n, a) : n \in {"batch_validate", "batch_analyze", "check_collisions",
                                      "generate_statistics"}, a \in BatchArgs}
        \cup {ToolCall(n, Undefined) : n \in ToolNames \cup {"statistics"}}
        \cup {ToolCall("statistics", a) : a \in BatchArgs}

Job(input) == [via |-> "job", input |-> input]

OutputFormats == Present("outputFormat", {"json", "csv", "text", "xml"})

Operation(op) == [operation |-> op]

JobInputs ==
    {a @@ f : a \in GenerateArgs("uuidVersion"), f \in {<<>>, [outputFormat |-> "csv"]}}
        \cup {Operation("generate") @@ m @@ f :
                  m \in Present("includeMetadata", {TRUE, FALSE}), f \in OutputFormats}
        \cup {Operation(op) @@ a @@ f :
                  op \in {"validate", "analyze"}, a \in SingleArgs, f \in OutputFormats}
        \cup {Operation("convert") @@ a @@ f : a \in ConvertArgs, f \in OutputFormats}
        \cup {Operation(op) @@ a @@ f :
                  op \in {"batch_validate", "batch_analyze", "check_collisions", "statistics"},
                  a \in BatchArgs, f \in OutputFormats}
        \cup {Operation("generate_uuid") @@ a : a \in SingleArgs}
        \cup {Undefined, JsNull}

Requests == ToolCalls \cup {Job(input) : input \in JobInputs}

InitInterface ==
    /\ regexEdition \in RegexEditions
    /\ request \in Requests
    /\ uuid = Undefined
    /\ uuids = <<>>
    /\ options = <<>>
    /\ fn = "none"
    /\ outcome = NoOutcome
    /\ effects = <<>>

\* the server answers a tool call
CallToolRequest ==
    \E seed \in 1..MaxSeed :
        /\ fn = "none"
        /\ request.via = "tool"
        /\ fn' = "CallToolRequest"
        /\ outcome' = Respond(ToolOutcome(request.name, request.args, seed))
        /\ UNCHANGED <<regexEdition, uuid, uuids, options, request, effects>>

\* the platform runs the job on its input
ActorMain ==
    \E seed \in 1..MaxSeed :
        /\ fn = "none"
        /\ request.via = "job"
        /\ fn' = "Actor.main"
        /\ \E run \in {Main(request.input, seed)} :
               outcome' = run.outcome /\ effects' = run.effects
        /\ UNCHANGED <<regexEdition, uuid, uuids, options, request>>

NextInterface ==
    \/ CallToolRequest
    \/ ActorMain

SpecInterface == InitInterface /\ [][NextInterface]_vars

----------------------------------------------------------------------------
(* Several tool calls in flight at once, answered in any order.            *)

MaxCalls == 2

\* calls to the tools that generate nothing
CallPool ==
    { ToolCall("check_collisions", [uuids |-> Arr(<<Str(toUpperCase(Regroup(DocumentedV4))), Str(DocumentedV4)>>)]),
      ToolCall("check_collisions", [uuids |-> Arr(<<Str(Regroup(DocumentedV4))>>)]),
      ToolCall("check_collisions", [uuids |-> Arr(<<Str(Regroup(DocumentedV4)), JsNull>>)]),
      ToolCall("batch_validate", [uuids |-> Arr(<<Str(Regroup(DocumentedV4)), Str(<<"i","n","v","a","l","i","d","-","u","u","i","d">>)>>)]),
      ToolCall("batch_analyze", [uuids |-> Arr(<<Str(toUpperCase(Regroup(DocumentedV4))), Str(DocumentedV4)>>)]),
      ToolCall("generate_statistics", [uuids |-> Arr(<<Str(Regroup(SampleV1)), Wrapped(Str(DocumentedV4))>>)]),
      ToolCall("validate_uuid", [uuid |-> Str(Regroup(DocumentedV4))]),
      ToolCall("analyze_uuid", [uuid |-> Str(Regroup(SampleV1))]),
      ToolCall("convert_uuid_format", [uuid |-> Str(Regroup(DocumentedV4)), uppercase |-> TRUE]),
      ToolCall("convert_uuid_format", [uuid |-> Str(<<"i","n","v","a","l","i","d","-","u","u","i","d">>)]) }

RECURSIVE CallsOf(_)
CallsOf(n) == IF n = 0 THEN {<<>>} ELSE {<<>>} \cup {Append(c, call) : c \in CallsOf(n - 1), call \in CallPool}

InFlight(calls) == [via |-> "calls", calls |-> calls]

\* the calls are in flight and none is answered; uuids is the memory that
\* holds the arguments of each call
InitCalls ==
    /\ regexEdition \in RegexEditions
    /\ request \in {InFlight(calls) : calls \in CallsOf(MaxCalls) \ {<<>>}}
    /\ uuid = Undefined
    /\ uuids = [i \in 1..Len(request.calls) |-> request.calls[i].args]
    /\ options = <<>>
    /\ fn = "none"
    /\ outcome = [i \in 1..Len(request.calls) |-> NoOutcome]
    /\ effects = <<>>

\* the server answers one of the calls in flight (the handler has no await, so
\* it runs from its first statement to its return without another call in
\* between); effects keeps the order in which the calls were answered, and
\* the seed matters to generate_uuid only
ServeCall ==
    \E i \in 1..Len(request.calls) :
        /\ outcome[i] = NoOutcome
        /\ fn' = request.calls[i].name
        /\ outcome' = [outcome EXCEPT ![i] = Respond(ToolOutcome(request.calls[i].name, uuids[i], 1))]
        /\ effects' = Append(effects, i)
        /\ UNCHANGED <<regexEdition, uuid, uuids, options, request>>

NextCalls == ServeCall

SpecCalls == InitCalls /\ [][NextCalls]_vars

----------------------------------------------------------------------------
(* exportData on its own: one call per behaviour.                          *)

MaxRows == 2

\* values a property of a result object may hold
CellValues ==
    { Str(<<"a">>), Str(<<>>), Str(<<"a", ",", "b">>), Str(<<"a", "\"", "b">>),
      Str(<<"\"", ",", "\"">>), Str(Regroup(DocumentedV4)),
      Num(42), Bool(TRUE), JsNull,
      Obj(<<Entry(<<"k">>, Str(<<"v">>))>>), Obj(<<>>), Arr(<<Num(1), Str(<<"\"">>)>>) }

\* result objects with one or two properties
FirstObjects ==
    {Obj(<<Entry(Spell["uuid"], v)>>) : v \in CellValues}
        \cup {Obj(<<Entry(Spell["uuid"], v), Entry(Spell["format"], w)>>) : v, w \in CellValues}

\* the objects that follow the first: with its keys, with fewer and with others
MoreObjects ==
    { Obj(<<Entry(Spell["uuid"], Str(<<"a", ",", "b">>))>>),
      Obj(<<Entry(Spell["uuid"], Str(Regroup(DocumentedV4))), Entry(Spell["format"], Str(Spell["standard"]))>>),
      Obj(<<Entry(Spell["uuid"], JsNull), Entry(Spell["format"], Str(<<"\"", ",", "\"">>))>>),
      Obj(<<Entry(Spell["uuid"], Num(42)), Entry(Spell["format"], Obj(<<Entry(<<"k">>, Str(<<"v">>))>>))>>),
      Obj(<<Entry(Spell["version"], Str(Spell["v4"])), Entry(Spell["uuid"], Str(<<"a">>))>>) }

RECURSIVE RowsOf(_)
RowsOf(n) == IF n = 0 THEN {<<>>} ELSE {<<>>} \cup {Append(r, o) : r \in RowsOf(n - 1), o \in MoreObjects}

\* what exportData may be handed: arrays of result objects, the empty array,
\* an array of strings and a report that is no array
ExportedData ==
    {Arr(<<first>> \o more) : first \in FirstObjects, more \in RowsOf(MaxRows - 1)}
        \cup { Arr(<<>>), Arr(<<Str(Regroup(DocumentedV4)), Str(DocumentedV4)>>),
               [total |-> 1, unique |-> 1, duplicates |-> 0, collisions |-> <<>>] }

Export(data, format, keyName) == [via |-> "export", data |-> data, format |-> format, keyName |-> keyName]

InitExport ==
    /\ regexEdition \in RegexEditions
    /\ request \in {Export(data, format, "OUTPUT") :
                        data \in ExportedData, format \in {"json", "csv", "text", "xml"}}
    /\ uuid = Undefined
    /\ uuids = <<>>
    /\ options = <<>>
    /\ fn = "none"
    /\ outcome = NoOutcome
    /\ effects = <<>>

\* await exportData(data, format, keyName)
CallExportData ==
    /\ fn = "none"
    /\ fn' = "exportData"
    /\ \E exported \in {exportData(request.data, request.format, request.keyName)} :
           IF exported.kind = "throw"
               THEN outcome' = exported /\ effects' = effects
               ELSE outcome' = Returned(Undefined) /\ effects' = Append(effects, exported.value)
    /\ UNCHANGED <<regexEdition, uuid, uuids, options, request>>

NextExport == CallExportData

SpecExport == InitExport /\ [][NextExport]_vars

----------------------------------------------------------------------------
(* Properties of validation and version lookup.                            *)

\* what the call returned
Result == outcome.value

AllHex(s) == \A i \in 1..Len(s) : IsHexChar(s[i])

\* s is 32 hexadecimal digits written 8-4-4-4-12 with dashes, in either case
IsGrouped(s) == Len(s) = 36 /\ Len(StripDashes(s)) = 32 /\ AllHex(StripDashes(s))
                    /\ s = Regroup(StripDashes(s))

VersionNibble(s) == ParseHex(<<StripDashes(s)[13]>>)

VariantNibble(s) == ParseHex(<<StripDashes(s)[17]>>)

IsAll(s, c) == toLowerCase(StripDashes(s)) = Repeat(c, 32)

VariantLabels == {"NCS backward compatible", "RFC 4122", "Microsoft", "Reserved for future use"}

\* the validity the specification describes: dashes stripped, lowercased, 32
\* hexadecimal characters, a variant nibble of one of the four classes
IsValidIdentifier(x) ==
    /\ x.t = "string"
    /\ LET n == toLowerCase(StripDashes(x.s))
       IN  Len(n) = 32 /\ AllHex(n) /\ getVariant(n) \in VariantLabels

C3_VersionOf ==
    fn = "getUUIDVersion" =>
        /\ outcome.kind = "return"
        /\ (Result = JsNull) <=> ~validateUUID(uuid)
        /\ validateUUID(uuid) => Result = Num(VersionNibble(uuid.s))

\* the version of the documented version-5 identifier was looked up
C3_Witness ==
    /\ fn = "getUUIDVersion"
    /\ uuid = Str(Regroup(DocumentedV5))
    /\ outcome = Returned(Num(5))

\* C4: for a string, analyzeUUID never raises; it returns {valid: false, error:
\* "Invalid UUID length"} exactly when the argument without dashes is not 32
\* long, {valid: false, error: "Invalid UUID format"} exactly when it is 32 long
\* and its regrouped form fails validation, and a valid analysis otherwise.
C4_AnalyzeOutcomes ==
    (fn = "analyzeUUID" /\ uuid.t = "string") =>
        LET stripped  == StripDashes(uuid.s)
            regrouped == Str(Regroup(stripped))
        IN  /\ outcome.kind = "return"
            /\ (Result = [valid |-> FALSE, error |-> "Invalid UUID length"])
                    <=> Len(stripped) # 32
            /\ (Result = [valid |-> FALSE, error |-> "Invalid UUID format"])
                    <=> (Len(stripped) = 32 /\ ~validateUUID(regrouped))
            /\ Result.valid <=> (Len(stripped) = 32 /\ validateUUID(regrouped))

\* "not-a-uuid" was analysed
C4_Witness ==
    /\ fn = "analyzeUUID"
    /\ uuid = Str(<<"n","o","t","-","a","-","u","u","i","d">>)
    /\ outcome = Returned([valid |-> FALSE, error |-> "Invalid UUID length"])

----------------------------------------------------------------------------
(* Properties of the analysis.                                             *)

ValidAnalysis == fn = "analyzeUUID" /\ outcome.kind = "return" /\ Result.valid

\* the variant label the four bit patterns give a nibble
LabelOfNibble(n) ==
    CASE n \in 0..7   -> "NCS backward compatible"
      [] n \in 8..11  -> "RFC 4122"
      [] n \in 12..13 -> "Microsoft"
      [] n \in 14..15 -> "Reserved for future use"

\* some argument is analysed as valid with this variant label
Produced(label) ==
    \E x \in Inputs :
        LET a == analyzeUUID(x)
        IN  a.kind = "return" /\ a.value.valid /\ a.value.variant = label

\* C5 as stated: in a valid analysis the variant is the label of the class of the
\* nibble at position 16 (0-7, 8-b, c-d, e-f), and each of the four labels is
\* produced by some valid input.
C5_AsStated ==
    /\ ValidAnalysis => Result.variant = LabelOfNibble(VariantNibble(uuid.s))
    /\ \A label \in VariantLabels : Produced(label)

\* an object without one key
Without(obj, key) == [k \in DOMAIN obj \ {key} |-> obj[k]]

CompactRenderings == {"compact", "compactUpper"}

\* C6: in a valid analysis format is 'standard' iff the argument contains a dash;
\* every other way of writing the same digits is analysed to the same uuid,
\* version, variant and remaining fields, with format 'compact' iff it has no
\* dash; and generateStatistics counts two writings of the same valid digits
\* under one version and one variant, each under the format of its own writing.
C6_FormatOfInput ==
    /\ ValidAnalysis =>
        /\ Result.format = (IF \E i \in 1..Len(uuid.s) : uuid.s[i] = "-" THEN "standard" ELSE "compact")
        /\ \A how \in Renderings :
            LET other == analyzeUUID(Rewritten(uuid, how))
            IN  /\ other.kind = "return"
                /\ other.value.valid
                /\ other.value.uuid = Result.uuid
                /\ other.value.version = Result.version
                /\ other.value.variant = Result.variant
                /\ Without(other.value, "format") = Without(Result, "format")
                /\ other.value.format = (IF how \in CompactRenderings THEN "compact" ELSE "standard")
    /\ (fn = "generateStatistics" /\ Len(uuids) = 2 /\ uuid.t = "string") =>
        LET first   == analyzeUUID(uuids[1]).value
            dashed  == Cardinality({i \in 1..2 : \E j \in 1..Len(uuids[i].s) : uuids[i].s[j] = "-"})
        IN  /\ outcome.kind = "return"
            /\ Result.total = 2
            /\ first.valid =>
                /\ Result.formats = [standard |-> dashed, compact |-> 2 - dashed]
                /\ Result.versions = (first.version :> 2)
                /\ Result.variants = (first.variant :> 2)
            /\ ~first.valid =>
                /\ Result.formats = [standard |-> 0, compact |-> 0]
                /\ Result.versions = <<>>
                /\ Result.variants = <<>>

\* the documented version-4 identifier and its compact form went through
\* generateStatistics together
C6_Witness ==
    /\ fn = "generateStatistics"
    /\ uuids = <<Str(Regroup(DocumentedV4)), Str(DocumentedV4)>>
    /\ outcome = Returned([total    |-> 2,
                           versions |-> (4 :> 2),
                           formats  |-> [standard |-> 1, compact |-> 1],
                           variants |-> ("RFC 4122" :> 2)])

TypeLabels ==
    (1 :> "timestamp-based") @@ (3 :> "namespace-based (MD5)") @@ (4 :> "random")
        @@ (5 :> "namespace-based (SHA-1)")

\* C7: in a valid analysis type is 'timestamp-based' for version 1,
\* 'namespace-based (MD5)' for 3, 'random' for 4, 'namespace-based (SHA-1)' for 5
\* and absent for every other version; timestamp is present iff the version is
\* 1, and then it is a record of iso, unix and raw, not null.
C7_TypeAndTimestamp ==
    ValidAnalysis =>
        /\ Result.version \in DOMAIN TypeLabels =>
                "type" \in DOMAIN Result /\ Result.type = TypeLabels[Result.version]
        /\ Result.version \notin DOMAIN TypeLabels => "type" \notin DOMAIN Result
        /\ "timestamp" \in DOMAIN Result <=> Result.version = 1
        /\ Result.version = 1 =>
                /\ Result.timestamp # JsNull
                /\ DOMAIN Result.timestamp = {"iso", "unix", "raw"}

\* a version-3 identifier was analysed
C7_Witness ==
    /\ ValidAnalysis
    /\ uuid = Str(DigitsOf(SeededTime(1), 3, 8))
    /\ Result.type = "namespace-based (MD5)"
    /\ "timestamp" \notin DOMAIN Result

ValidV1 == ValidAnalysis /\ Result.version = 1

\* 2^60
TwoPow60 == <<6976, 684, 5046, 2921, 115>>

\* high * 2^48 + mid * 2^32 + low of the 32 digits d, the high field being the
\* three digits after the version digit
RawCount(d) ==
    LET high  == ParseHex(SubSeq(d, 14, 16))
        mid   == ParseHex(SubSeq(d, 9, 12))
        lowHi == ParseHex(SubSeq(d, 1, 4))
        lowLo == ParseHex(SubSeq(d, 5, 8))
    IN  Trim(MulAdd(MulAdd(MulAdd(Trim(<<high>>), 65536, mid), 65536, lowHi), 65536, lowLo))

\* unix is (raw - 122192928000000000) divided by 10000 and truncated toward zero:
\* |unix| * 10000 is at most |raw - offset| and misses it by less than 10000,
\* and unix has the sign of the difference unless it is 0
IsTruncatedQuotient(unix, raw) ==
    LET scaled == Trim(MulAdd(unix.mag, 10000, 0))
        before == LessMag(raw, UUID_EPOCH_OFFSET)
        small  == IF before THEN raw ELSE UUID_EPOCH_OFFSET
        large  == IF before THEN UUID_EPOCH_OFFSET ELSE raw
        reach  == Trim(AddMag(small, scaled, 0))
    IN  /\ ~LessMag(large, reach)
        /\ LessMag(large, Trim(AddMag(reach, <<0, 1>>, 0)))
        /\ unix.neg => before
        /\ (before /\ unix.mag # <<>>) => unix.neg

TimestampIsRaw ==
    LET raw == RawCount(StripDashes(uuid.s))
    IN  /\ Result.timestamp.raw = DecimalOfMag(raw)
        /\ LessMag(raw, TwoPow60)
        /\ IsTruncatedQuotient(Result.timestamp.unix, raw)

\* C8 as stated: for a valid version-1 identifier raw = high*2^48 + mid*2^32 +
\* low < 2^60, unix is (raw - 122192928000000000) / 10000 truncated toward zero,
\* and unix is negative for every raw count before the Unix epoch.
C8_AsStated ==
    ValidV1 =>
        /\ TimestampIsRaw
        /\ LessMag(RawCount(StripDashes(uuid.s)), UUID_EPOCH_OFFSET) => Result.timestamp.unix.neg

\* C8 amended: raw and unix as stated, and unix is negative exactly for the raw
\* counts at least 10000 below 122192928000000000; for the 9999 counts just
\* before the Unix epoch the truncation gives 0.
C8_TimestampArithmetic ==
    ValidV1 =>
        /\ TimestampIsRaw
        /\ Result.timestamp.unix.neg
                <=> LessMag(Trim(AddMag(RawCount(StripDashes(uuid.s)), <<0, 1>>, 0)),
                            Trim(AddMag(UUID_EPOCH_OFFSET, <<1>>, 0)))

\* the count one tick after 1582-10-15 was decoded: 12219292799999 ms before 1970
C8_Witness ==
    /\ ValidV1
    /\ StripDashes(uuid.s) = DigitsOf(TimeFields(<<"0","0","0","0","0","0","0","1">>, <<"0","0","0","0">>, <<"0","0","0">>), 1, 9)
    /\ Result.timestamp.raw = <<"1">>
    /\ Result.timestamp.unix = [t |-> "number", neg |-> TRUE, mag |-> <<9999, 9279, 2192, 12>>]

\* the sample of the README's "Analyze UUID" section
DocumentedV1 == DigitsOf(SeededTime(1), 1, 10)

\* C9 as stated: analyzeUUID("6fa459ea-ee8a-11ed-a05b-0242ac120003") is version 1,
\* variant 'RFC 4122', format 'standard', type 'timestamp-based', with timestamp
\* iso 2023-04-20T15:30:42.000Z, unix 1682005842000, raw "138967806420000000".
C9_AsDocumented ==
    (fn = "analyzeUUID" /\ uuid = Str(Regroup(DocumentedV1))) =>
        outcome = Returned([valid     |-> TRUE,
                            uuid      |-> <<"6","f","a","4","5","9","e","a","-","e","e","8","a","-","1","1","e","d","-","a","0","5","b","-","0","2","4","2","a","c","1","2","0","0","0","3">>,
                            version   |-> 1,
                            format    |-> "standard",
                            variant   |-> "RFC 4122",
                            type      |-> "timestamp-based",
                            timestamp |-> [iso  |-> <<"2","0","2","3","-","0","4","-","2","0","T","1","5",":","3","0",":","4","2",".","0","0","0","Z">>,
                                           unix |-> [t |-> "number", neg |-> FALSE,
                                                     mag |-> <<2000, 584, 6820, 1>>],
                                           raw  |-> <<"1","3","8","9","6","7","8","0","6","4","2","0","0","0","0","0","0","0">>]])

----------------------------------------------------------------------------
(* Properties of the conversion.                                           *)

\* C10: for a string s, convertUUIDFormat raises 'Invalid UUID length' when s
\* without dashes is not 32 long and 'Invalid UUID format' when the regrouped
\* value fails validation; otherwise it returns the digits of s (compared
\* case-insensitively), grouped 8-4-4-4-12 in 36 characters iff removeDashes is
\* false, in upper case iff uppercase is true and in lower case otherwise, and
\* the result is the same for every way of writing the digits of s.
C10_Convert ==
    (fn = "convertUUIDFormat" /\ uuid.t = "string") =>
        LET stripped == StripDashes(uuid.s)
            upper    == "uppercase" \in DOMAIN options /\ options.uppercase
            compact  == "removeDashes" \in DOMAIN options /\ options.removeDashes
        IN  IF Len(stripped) # 32 THEN outcome = Raised("Invalid UUID length")
            ELSE IF ~validateUUID(Str(Regroup(stripped))) THEN outcome = Raised("Invalid UUID format")
            ELSE /\ outcome.kind = "return"
                 /\ Result.t = "string"
                 /\ toLowerCase(StripDashes(Result.s)) = toLowerCase(stripped)
                 /\ IF compact THEN Len(Result.s) = 32 /\ Result.s = StripDashes(Result.s)
                               ELSE Len(Result.s) = 36 /\ Result.s = Regroup(StripDashes(Result.s))
                 /\ IF upper THEN Result.s = toUpperCase(Result.s)
                             ELSE Result.s = toLowerCase(Result.s)
                 /\ \A how \in Renderings :
                        convertUUIDFormat(Rewritten(uuid, how), options) = outcome

\* the README's conversion: upper case and no dashes
C10_Witness ==
    /\ fn = "convertUUIDFormat"
    /\ uuid = Str(Regroup(DocumentedV4))
    /\ options = [uppercase |-> TRUE, removeDashes |-> TRUE]
    /\ outcome = Returned(Str(<<"F","4","7","A","C","1","0","B","5","8","C","C","4","3","7","2","A","5","6","7","0","E","0","2","B","2","C","3","D","4","7","9">>))

\* the digits of the argument in lower case, grouped 8-4-4-4-12
LowerDashed(x) ==
    LET grouped == Regroup(StripDashes(x.s))
    IN  [i \in 1..Len(grouped) |-> ToLowerChar(grouped[i])]

\* C11: whatever convertUUIDFormat returns is accepted by convertUUIDFormat, and
\* converting it again with any options o equals converting the original argument
\* with o; in particular the upper-case conversion converted back with
\* uppercase false is the lower-case dashed form of the original argument.
C11_RoundTrip ==
    (fn = "convertUUIDFormat" /\ outcome.kind = "return") =>
        /\ \A o \in OptionSets :
               /\ convertUUIDFormat(Result, o).kind = "return"
               /\ convertUUIDFormat(Result, o) = convertUUIDFormat(uuid, o)
        /\ Option(options, "uppercase") =>
               convertUUIDFormat(Result, [uppercase |-> FALSE]) = Returned(Str(LowerDashed(uuid)))

\* the documented version 4 sample converted to upper case and back
C11_Witness ==
    /\ fn = "convertUUIDFormat"
    /\ uuid = Str(Regroup(DocumentedV4))
    /\ options = [uppercase |-> TRUE]
    /\ outcome = Returned(Str(<<"F","4","7","A","C","1","0","B","-","5","8","C","C","-","4","3","7","2","-","A","5","6","7","-","0","E","0","2","B","2","C","3","D","4","7","9">>))
    /\ convertUUIDFormat(Result, [uppercase |-> FALSE]) = Returned(uuid)

----------------------------------------------------------------------------
(* Properties of repeated analysis.                                        *)

\* C12: the uuid field of a valid analysis is the lower-case dashed form of the
\* argument, and analysing that field again is valid with the same uuid, version,
\* variant, type and timestamp, and with format 'standard'.
C12_AnalyzeIdempotent ==
    ValidAnalysis =>
        /\ Result.uuid = LowerDashed(uuid)
        /\ Len(Result.uuid) = 36
        /\ LET again == analyzeUUID(Str(Result.uuid))
           IN  /\ again.kind = "return"
               /\ again.value.valid
               /\ again.value.format = "standard"
               /\ Without(again.value, "format") = Without(Result, "format")

\* the compact upper-case writing of the documented version 1 sample
C12_Witness ==
    /\ ValidAnalysis
    /\ uuid = Str(toUpperCase(DigitsOf(SeededTime(1), 1, 10)))
    /\ Result.format = "compact"
    /\ "timestamp" \in DOMAIN Result
    /\ analyzeUUID(Str(Result.uuid)).value.format = "standard"

----------------------------------------------------------------------------
(* Properties of the batch operations.                                     *)

V4Dashed == Str(Regroup(DocumentedV4))

InvalidUuid == Str(<<"i","n","v","a","l","i","d","-","u","u","i","d">>)

NilDashed == Str(Regroup(Repeat("0", 32)))

\* C13: batchValidate returns one result per input element in input order, with
\* results[i].uuid the element, results[i].valid = validateUUID(element) and
\* results[i].version = getUUIDVersion(element), null exactly when invalid; total
\* is the input length, valid and invalid count the results and sum to total;
\* a valid version 4 identifier followed by garbage gives total 2, valid 1,
\* invalid 1 and a null version for the second result.
C13_BatchValidate ==
    fn = "batchValidate" =>
        /\ outcome.kind = "return"
        /\ Len(Result.results) = Len(uuids)
        /\ \A i \in 1..Len(uuids) :
               /\ Result.results[i].uuid = uuids[i]
               /\ Result.results[i].valid = validateUUID(uuids[i])
               /\ Result.results[i].version = getUUIDVersion(uuids[i])
               /\ (Result.results[i].version = JsNull) <=> ~Result.results[i].valid
        /\ Result.total = Len(uuids)
        /\ Result.valid = Cardinality({i \in 1..Len(uuids) : validateUUID(uuids[i])})
        /\ Result.valid + Result.invalid = Result.total
        /\ uuids = <<V4Dashed, InvalidUuid>> =>
               /\ Result.total = 2 /\ Result.valid = 1 /\ Result.invalid = 1
               /\ Result.results[1].version = Num(4)
               /\ Result.results[2].version = JsNull

\* a valid identifier after an invalid one and an element that is no string
C13_Witness ==
    /\ fn = "batchValidate"
    /\ uuids = <<InvalidUuid, JsNull, V4Dashed>>
    /\ Result.total = 3 /\ Result.valid = 1 /\ Result.invalid = 2
    /\ Result.results[3] = [uuid |-> V4Dashed, valid |-> TRUE, version |-> Num(4)]

AllStrings(array) == \A i \in 1..Len(array) : array[i].t = "string"

\* the count an object holds under a key, 0 when the key is absent
CountAt(obj, key) == IF key \in DOMAIN obj THEN obj[key] ELSE 0

RECURSIVE SumValues(_)
SumValues(obj) ==
    IF DOMAIN obj = {} THEN 0
    ELSE LET k == CHOOSE k \in DOMAIN obj : TRUE
         IN  obj[k] + SumValues(Without(obj, k))

\* C14 as stated: for every sequence of strings batchAnalyze returns results[i] =
\* analyzeUUID(input i) with valid + invalid = total = input length, and
\* versionBreakdown[v] is the number of valid results of version v for every v,
\* version 0 included, so that the counts sum to the valid count.
C14_AsStated ==
    (fn = "batchAnalyze" /\ AllStrings(uuids)) =>
        /\ outcome.kind = "return"
        /\ Result.total = Len(uuids)
        /\ Result.valid + Result.invalid = Result.total
        /\ \A i \in 1..Len(uuids) : Result.results[i] = analyzeUUID(uuids[i]).value
        /\ \A v \in 0..15 :
               CountAt(Result.versionBreakdown, v)
                   = Cardinality({i \in 1..Len(uuids) :
                                     Result.results[i].valid /\ Result.results[i].version = v})
        /\ SumValues(Result.versionBreakdown) = Result.valid

\* the element at position i and its normal form
IdentifierAt(i) == ElementOf(uuids[i])

NormalAt(i) == StripDashes(toLowerCase(IdentifierAt(i).s))

\* every element is a string or an object carrying one
AllIdentifiers(array) ==
    \A i \in 1..Len(array) : ~ElementThrows(array[i]) /\ ElementOf(array[i]).t = "string"

\* C15: checkCollisions reports element i as a collision iff an earlier element
\* has the same normal form (lower case, dashes removed), so a first occurrence
\* is never reported; the collisions are in strictly increasing index order and
\* carry the identifier as it was written and its index; unique counts the
\* distinct normal forms; "F47AC10B-58CC-4372-A567-0E02B2C3D479" followed by
\* "f47ac10b58cc4372a5670e02b2c3d479" gives unique 1, duplicates 1 and one
\* collision at index 1.
C15_Collisions ==
    fn = "checkCollisions" =>
        /\ AllIdentifiers(uuids) <=> outcome.kind = "return"
        /\ outcome.kind = "return" =>
               LET c == Result.collisions
               IN  /\ {c[k].index : k \in 1..Len(c)}
                        = {i - 1 : i \in {i \in 1..Len(uuids) :
                                             \E j \in 1..(i - 1) : NormalAt(j) = NormalAt(i)}}
                   /\ \A k \in 1..(Len(c) - 1) : c[k].index < c[k + 1].index
                   /\ \A k \in 1..Len(c) : c[k].uuid = IdentifierAt(c[k].index + 1)
                   /\ Result.total = Len(uuids)
                   /\ Result.unique = Cardinality({NormalAt(i) : i \in 1..Len(uuids)})
                   /\ Result.duplicates = Len(c)
        /\ uuids = <<Str(toUpperCase(Regroup(DocumentedV4))), Str(DocumentedV4)>> =>
               /\ Result.unique = 1 /\ Result.duplicates = 1
               /\ Result.collisions = <<[uuid |-> Str(DocumentedV4), index |-> 1]>>

\* the same identifier written three ways around another one
C15_Witness ==
    /\ fn = "checkCollisions"
    /\ uuids = <<Str(toUpperCase(Regroup(DocumentedV4))), Str(Regroup(SampleV1)), Str(DocumentedV4)>>
    /\ Result.unique = 2 /\ Result.duplicates = 1
    /\ Result.collisions = <<[uuid |-> Str(DocumentedV4), index |-> 2]>>

\* the analyses of the identifiers of the array, in order
Analyses == [i \in 1..Len(uuids) |-> analyzeUUID(IdentifierAt(i)).value]

\* how many of the analyses are valid and have value v in the field
Tally(analyses, field, v) ==
    Cardinality({i \in 1..Len(analyses) : analyses[i].valid /\ analyses[i][field] = v})

\* C16: generateStatistics reports total = input length and counts only the valid
\* elements, each once under its version, once under its format and once under
\* its variant, so the version counts, standard + compact and the variant counts
\* all sum to the number of valid elements, which is at most total; the three
\* dashed samples of versions 1, 4 and 5 give versions {1:1, 4:1, 5:1} and
\* formats.standard = 3.
C16_Statistics ==
    fn = "generateStatistics" =>
        /\ AllIdentifiers(uuids) <=> outcome.kind = "return"
        /\ outcome.kind = "return" =>
               LET analyses == Analyses
                   valid    == ValidCount(analyses)
               IN  /\ Result.total = Len(uuids)
                   /\ \A v \in 0..15 :
                          CountAt(Result.versions, v) = Tally(analyses, "version", v)
                   /\ \A f \in {"standard", "compact"} :
                          Result.formats[f] = Tally(analyses, "format", f)
                   /\ \A l \in VariantLabels :
                          CountAt(Result.variants, l) = Tally(analyses, "variant", l)
                   /\ DOMAIN Result.versions \subseteq 0..15
                   /\ DOMAIN Result.variants \subseteq VariantLabels
                   /\ SumValues(Result.versions) = valid
                   /\ Result.formats.standard + Result.formats.compact = valid
                   /\ SumValues(Result.variants) = valid
                   /\ valid <= Result.total
        /\ uuids = <<Str(Regroup(DocumentedV4)), Str(Regroup(SampleV1)), Str(Regroup(DocumentedV5))>> =>
               /\ Result.versions = (1 :> 1) @@ (4 :> 1) @@ (5 :> 1)
               /\ Result.formats = [standard |-> 3, compact |-> 0]
               /\ Result.variants = ("RFC 4122" :> 3)

\* the same identifier dashed and compact beside a string that is no identifier
C16_Witness ==
    /\ fn = "generateStatistics"
    /\ uuids = <<V4Dashed, InvalidUuid, Str(DocumentedV4)>>
    /\ Result.total = 3
    /\ Result.versions = (4 :> 2)
    /\ Result.formats = [standard |-> 1, compact |-> 1]

\* C17 as stated: each batch operation, given a non-empty array of whatever
\* elements (garbage strings, empty strings, null, numbers, objects without a
\* uuid field), returns a complete report and does not raise.
C17_AsStated ==
    (fn \in {"batchValidate", "batchAnalyze", "checkCollisions", "generateStatistics"}
        /\ Len(uuids) > 0) =>
            outcome.kind = "return" /\ Result.total = Len(uuids)

----------------------------------------------------------------------------
(* Properties of the two interfaces.                                       *)

IsToolCall == request.via = "tool"

IsJob == request.via = "job"

\* the arguments of the request, whichever interface it came through
Arguments == IF IsToolCall THEN request.args ELSE request.input

\* the request asks for one of the operations named (by its tool name on the
\* server, by its operation name in a job)
Asks(tools, operations) ==
    \/ IsToolCall /\ request.name \in tools
    \/ IsJob /\ request.input \notin {Undefined, JsNull}
             /\ Default(request.input, "operation", "generate") \in operations

\* the request was answered with an error: a response marked isError that
\* carries nothing but the message, or a run that raised and wrote nothing
ErrorOutcome ==
    \/ /\ IsToolCall
       /\ outcome.kind = "return"
       /\ "isError" \in DOMAIN Result /\ Result.isError
       /\ DOMAIN Result.content[1].text.json = {"error"}
    \/ /\ IsJob
       /\ outcome.kind = "throw"
       /\ effects = <<>>

\* C18 as stated: on both interfaces each of the four batch operations ends in
\* an error outcome and produces no report when uuids is missing, is not an
\* array, or is an empty array.
C18_AsStated ==
    (fn # "none"
        /\ Asks({"batch_validate", "batch_analyze", "check_collisions", "generate_statistics"},
                {"batch_validate", "batch_analyze", "check_collisions", "statistics"})
        /\ LET given == Get(Arguments, "uuids")
           IN  given.t # "array" \/ given.items = <<>>)
    => ErrorOutcome

\* C19 as stated: on both interfaces validate, analyze and convert end in an
\* error outcome, not in a result with valid = false, when uuid is null, the
\* empty string or missing.
C19_AsStated ==
    (fn # "none"
        /\ Asks({"validate_uuid", "analyze_uuid", "convert_uuid_format"},
                {"validate", "analyze", "convert"})
        /\ Get(Arguments, "uuid") \in {JsNull, Undefined, Str(<<>>)})
    => ErrorOutcome

\* what the tool named does with the arguments, as the exported functions
\* decide it (generation apart): the report to serialize or the error raised
Underlying(name, args) ==
    CASE name = "validate_uuid" ->
             Returned([valid   |-> validateUUID(Get(args, "uuid")),
                       version |-> getUUIDVersion(Get(args, "uuid"))]
                      @@ (IF "uuid" \in DOMAIN args THEN [uuid |-> args.uuid] ELSE <<>>))
      [] name = "analyze_uuid" -> analyzeUUID(Get(args, "uuid"))
      [] name = "convert_uuid_format" ->
             LET opts      == [uppercase |-> Default(args, "uppercase", FALSE),
                               removeDashes |-> Default(args, "removeDashes", FALSE)]
                 converted == convertUUIDFormat(Get(args, "uuid"), opts)
             IN  IF converted.kind = "throw" THEN converted
                 ELSE Returned([original |-> args.uuid, converted |-> converted.value,
                                options |-> opts])
      [] name = "batch_validate" -> batchValidateOf(Get(args, "uuids"))
      [] name = "batch_analyze" -> batchAnalyzeOf(Get(args, "uuids"))
      [] name = "check_collisions" ->
             LET report == checkCollisionsOf(Get(args, "uuids"))
             IN  IF report.kind = "return" /\ ~Iterable(Get(args, "uuids"))
                     THEN Returned(Without(report.value, "total")) ELSE report
      [] name = "generate_statistics" -> generateStatisticsOf(Get(args, "uuids"))

\* the count of a generation is an integer from 1 to 10000 (1 when not given)
CountInRange(args) ==
    LET count == Default(args, "count", Num(1))
    IN  count.t = "number" /\ count.n \in 1..10000

\* C20: every tool call, whatever the tool name and the arguments, ends in
\* exactly one response and never in an exception leaving the handler; the
\* response is marked isError and carries {error: message} iff the operation
\* raised (an unknown tool name gives 'Unknown tool: <name>', a count out of
\* range 'Count must be between 1 and 10,000', version 5 without a name 'Name is
\* required for UUID v5', a failed conversion 'Conversion failed: <reason>');
\* otherwise it carries the serialized result and is not marked as an error.
C20_ToolResponses ==
    fn = "CallToolRequest" =>
        /\ outcome.kind = "return"
        /\ DOMAIN Result \subseteq {"content", "isError"}
        /\ Len(Result.content) = 1
        /\ Result.content[1].type = "text"
        /\ "isError" \in DOMAIN Result => Result.isError
        /\ LET name   == request.name
               args   == request.args
               marked == "isError" \in DOMAIN Result
               text   == Result.content[1].text.json
           IN  /\ marked => DOMAIN text = {"error"}
               /\ IF name \notin ToolNames
                      THEN marked /\ text.error = "Unknown tool: " \o name
                  ELSE IF args \in {Undefined, JsNull} THEN marked
                  ELSE IF name = "generate_uuid" THEN
                      IF Default(args, "count", Num(1)).t \in {"number", "null"} /\ ~CountInRange(args)
                          THEN marked /\ text.error = "Count must be between 1 and 10,000"
                      ELSE IF Default(args, "version", "v4") = "v5" /\ Get(args, "name") \in {Undefined, Str(<<>>)}
                          THEN marked /\ text.error = "Name is required for UUID v5"
                      ELSE IF CountInRange(args) /\ Default(args, "version", "v4") \notin {"v1", "v4", "v5"}
                          THEN marked
                      ELSE /\ ~marked
                           /\ text.count = text.uuids.length
                           /\ text.version = Default(args, "version", "v4")
                           /\ CountInRange(args) => text.count = Default(args, "count", Num(1)).n
                  ELSE LET underlying == Underlying(name, args)
                       IN  /\ marked <=> underlying.kind = "throw"
                           /\ ~marked => text = underlying.value
                           /\ (marked /\ name = "convert_uuid_format") =>
                                  text.error = "Conversion failed: " \o underlying.message

\* a conversion that fails, answered with a response marked as an error
C20_Witness ==
    /\ fn = "CallToolRequest"
    /\ request = ToolCall("convert_uuid_format", [uuid |-> InvalidUuid])
    /\ outcome = Returned([content |-> <<[type |-> "text",
                                          text |-> [json |-> [error |-> "Conversion failed: Invalid UUID length"]]]>>,
                            isError |-> TRUE])

----------------------------------------------------------------------------
(* Properties of generation and of what a job run persists.                *)

IsGeneration == Asks({"generate_uuid"}, {"generate"}) /\ Arguments \notin {Undefined, JsNull}

\* the count asked for: 1 on the server and 10 in a job when none is given
CountAsked == Default(Arguments, "count", IF IsToolCall THEN Num(1) ELSE Num(10))

\* the version asked for, under the key of the interface
VersionAsked ==
    IF IsToolCall THEN Default(Arguments, "version", "v4") ELSE Default(Arguments, "uuidVersion", "v4")

\* apart from the count the configuration is in order: a supported version, a
\* name when the version is v5, and in a job a supported output format
OtherwiseConfigured ==
    /\ VersionAsked \in SupportedVersions
    /\ VersionAsked = "v5" => Truthy(Get(Arguments, "name"))
    /\ IsJob => OutputFormat(Arguments) \in {"json", "csv", "text"}

\* how many generated items a written value holds
Exported(value) == IF value.t = "joined" THEN LengthOf(value.data) ELSE value.length

\* the request produced exactly n identifiers: the response of the server
\* lists n, the run of a job pushed n items and exported the same n items
ProducedExactly(n) ==
    \/ /\ IsToolCall
       /\ outcome.kind = "return"
       /\ "isError" \notin DOMAIN Result
       /\ Result.content[1].text.json.count = n
       /\ Result.content[1].text.json.uuids.length = n
    \/ /\ IsJob
       /\ outcome.kind = "return"
       /\ Len(effects) = 2
       /\ effects[1].op = "pushData" /\ effects[1].items.length = n
       /\ effects[2].op = "setValue" /\ Exported(effects[2].value) = n

\* C21 as stated: on both interfaces a generation whose configuration is
\* otherwise in order is accepted exactly when 1 <= count <= 100000; a count
\* outside that range ends in an error, and an accepted one produces exactly
\* count identifiers (pushed and exported, or listed in the response).
C21_AsStated ==
    (fn # "none" /\ IsGeneration /\ OtherwiseConfigured /\ CountAsked.t = "number") =>
        IF CountAsked.n \in 1..100000 THEN ProducedExactly(CountAsked.n) ELSE ErrorOutcome

\* the same, for job runs only
C21_JobSide == IsJob => C21_AsStated

\* the same on the server with its own limit
C21_ServerSide ==
    (IsToolCall /\ fn # "none" /\ IsGeneration /\ OtherwiseConfigured /\ CountAsked.t = "number") =>
        IF CountAsked.n \in 1..10000 THEN ProducedExactly(CountAsked.n) ELSE ErrorOutcome

\* the run of a job ended in a raised error
RunRaised == fn = "Actor.main" /\ outcome.kind = "throw"

\* C22 as stated: in the batch-job driver every configuration error (count out
\* of range, version 5 without a name, unsupported uuidVersion, missing uuid,
\* empty or non-array uuids, unknown operation, unsupported outputFormat, a
\* convert target that fails validation) is raised before anything is pushed
\* to the dataset or written to the key-value store: a run that ends in a
\* raised error has persisted nothing.
C22_AsStated == RunRaised => effects = <<>>

\* the same for runs whose output format is one of json, csv and text
C22_SupportedFormat ==
    (RunRaised /\ request.input \notin {Undefined, JsNull}
        /\ OutputFormat(request.input) \in {"json", "csv", "text"}) => effects = <<>>

\* what a run leaves behind when it raised: nothing, or the one push that
\* came before the export refused the output format
C22_PushBeforeFormatCheck ==
    (RunRaised /\ effects # <<>>) =>
        /\ Len(effects) = 1 /\ effects[1].op = "pushData"
        /\ OutputFormat(request.input) \notin {"json", "csv", "text"}

----------------------------------------------------------------------------
(* Properties of the exported text.                                        *)

\* a reader of one line of comma-separated values: a comma separates two
\* cells when an even number of double quotes precedes it; a cell that opens
\* with a double quote stands for what is between its outer quotes, a doubled
\* quote standing for one quote
QuotesBefore(line, i) == Cardinality({j \in 1..(i - 1) : line[j] = "\""})

\* the n-th smallest member of a set of positions
Nth(positions, n) == CHOOSE i \in positions : Cardinality({j \in positions : j < i}) = n - 1

Unquoted(cell) ==
    IF cell # <<>> /\ cell[1] = "\""
        THEN LET inner == SubSeq(cell, 2, Len(cell) - 1)
                 kept  == {j \in 1..Len(inner) : inner[j] = "\"" => QuotesBefore(inner, j) % 2 = 0}
             IN  [n \in 1..Cardinality(kept) |-> inner[Nth(kept, n)]]
        ELSE cell

SplitCells(line) ==
    LET commas == {i \in 1..Len(line) : line[i] = "," /\ QuotesBefore(line, i) % 2 = 0}
        count  == Cardinality(commas)
    IN  [n \in 1..(count + 1) |->
            Unquoted(SubSeq(line,
                            IF n = 1 THEN 1 ELSE Nth(commas, n - 1) + 1,
                            IF n = count + 1 THEN Len(line) ELSE Nth(commas, n) - 1))]

\* the text a value stands for in its cell: a nested object or array its JSON
\* text, any other value what join makes of it (nothing for null)
CellText(value) == IF IsObject(value) THEN JSONchars(value) ELSE JoinText(value)

\* a string is written in quotes exactly when it holds a comma or a quote
NeedsQuotes(s) == Includes(s, ",") \/ Includes(s, "\"")

\* an array of result objects was exported as csv
CsvOfObjects ==
    /\ fn = "exportData" /\ request.format = "csv"
    /\ IsArray(request.data) /\ LengthOf(request.data) > 0
    /\ IsObject(ElementAt(request.data, 0))

\* the cells of row k as written, before they were joined
CellsWritten(item) == [i \in 1..Len(item.entries) |-> JoinText(csvCell(item.entries[i].value))]

\* C23: the csv export of an array of result objects writes, under the key
\* with suffix .csv, the lines joined by line feeds: first the keys of the
\* first object joined by commas, then one row per object in order. A row
\* is the object's values joined by commas, where a string value (or the JSON
\* text of a nested object) holding a comma or a double quote is wrapped in
\* double quotes with its quotes doubled and every other value is written
\* as it is; so a row reads back as the object's values, cell by cell, and
\* has as many cells as the header has columns when the object has the keys
\* of the first.
C23_CsvRows ==
    CsvOfObjects =>
        LET data    == request.data
            n       == LengthOf(data)
            written == effects[1].value
            header  == JoinText(PartAt(written, 0))
            Row(k)  == JoinText(PartAt(written, k))
        IN  /\ Len(effects) = 1 /\ effects[1].key = request.keyName \o ".csv"
            /\ PartCount(written) = n + 1
            /\ CharsOf(written) = join([k \in 1..(n + 1) |-> Str(IF k = 1 THEN header ELSE Row(k - 1))],
                                       <<"\n">>)
            /\ header = join(ObjectKeys(ElementAt(data, 0)), <<",">>)
            /\ SplitCells(header) = [i \in 1..Len(ElementAt(data, 0).entries) |->
                                        ElementAt(data, 0).entries[i].key]
            /\ \A k \in 1..n :
                   LET item == ElementAt(data, k - 1)
                   IN  /\ Row(k) = join([i \in 1..Len(item.entries) |-> Str(CellsWritten(item)[i])], <<",">>)
                       /\ \A i \in 1..Len(item.entries) :
                              LET text == CellText(item.entries[i].value)
                                  cell == CellsWritten(item)[i]
                              IN  IF (item.entries[i].value.t = "string" \/ IsObject(item.entries[i].value))
                                         /\ NeedsQuotes(text)
                                      THEN cell = <<"\"">> \o DoubleQuotes(text) \o <<"\"">>
                                      ELSE cell = text
                       /\ SplitCells(Row(k)) = [i \in 1..Len(item.entries) |-> CellText(item.entries[i].value)]
                       /\ ObjectKeys(item) = ObjectKeys(ElementAt(data, 0)) =>
                              Len(SplitCells(Row(k))) = Len(SplitCells(header))

\* two objects with the same two keys were exported; the first holds a string
\* with a quote and a nested object, the second a string of quotes and a comma
C23_Witness ==
    /\ CsvOfObjects
    /\ request.data = Arr(<<Obj(<<Entry(Spell["uuid"], Str(<<"a", "\"", "b">>)),
                                  Entry(Spell["format"], Obj(<<Entry(<<"k">>, Str(<<"v">>))>>))>>),
                            Obj(<<Entry(Spell["uuid"], JsNull),
                                  Entry(Spell["format"], Str(<<"\"", ",", "\"">>))>>)>>)
    /\ CharsOf(effects[1].value) =
           <<"u","u","i","d",",","f","o","r","m","a","t","\n",
             "\"","a","\"","\"","b","\"",",",
             "\"","{","\"","\"","k","\"","\"",":","\"","\"","v","\"","\"","}","\"","\n",
             ",","\"","\"","\"",",","\"","\"","\"">>

\* a generation job that ran to its end and produced at least one item
Generation ==
    /\ fn = "Actor.main" /\ IsGeneration /\ outcome.kind = "return"
    /\ CountAsked.t = "number" /\ ProducedExactly(CountAsked.n)

MetadataKeys == <<Str(Spell["uuid"]), Str(Spell["version"]), Str(Spell["timestamp"]), Str(Spell["format"])>>

\* the indices looked at in a generated array: the first two and the last
Sampled(array) == {k \in {0, 1, LengthOf(array) - 1} : k < LengthOf(array)}

\* every item pushed has the properties named, in that order
ItemsCarry(keys) == \A k \in Sampled(effects[1].items) : ObjectKeys(ElementAt(effects[1].items, k)) = keys

\* C24 as stated: a generation with includeMetadata true (the default)
\* attaches version, timestamp and format to every generated item whatever
\* the output format; with outputFormat csv it writes OUTPUT.csv with the
\* header uuid,version,timestamp,format and one row of four cells per item.
C24_AsStated ==
    (Generation /\ Default(request.input, "includeMetadata", TRUE)) =>
        /\ ItemsCarry(MetadataKeys)
        /\ OutputFormat(request.input) = "csv" =>
               /\ effects[2].key = "OUTPUT.csv"
               /\ JoinText(PartAt(effects[2].value, 0)) = join(MetadataKeys, <<",">>)
               /\ \A k \in Sampled(effects[1].items) :
                      Len(SplitCells(JoinText(PartAt(effects[2].value, k + 1)))) = 4

\* what the driver does: the metadata is attached only when includeMetadata
\* is true and the output format is json; otherwise an item is {uuid}, and
\* the csv has the one column uuid
C24_MetadataOnlyForJson ==
    Generation =>
        /\ ItemsCarry(IF Default(request.input, "includeMetadata", TRUE) /\ OutputFormat(request.input) = "json"
                          THEN MetadataKeys ELSE <<Str(Spell["uuid"])>>)
        /\ OutputFormat(request.input) = "csv" =>
               /\ effects[2].key = "OUTPUT.csv"
               /\ JoinText(PartAt(effects[2].value, 0)) = Spell["uuid"]
               /\ \A k \in Sampled(effects[1].items) :
                      SplitCells(JoinText(PartAt(effects[2].value, k + 1)))
                          = <<Prop(ElementAt(effects[1].items, k), Spell["uuid"]).s>>

----------------------------------------------------------------------------
(* Properties of calls in flight together.                                 *)

\* the calls answered so far
Served == {i \in 1..Len(request.calls) : outcome[i] # NoOutcome}

----------------------------------------------------------------------------
(* Properties of what a job run persists.                                  *)

\* the key each operation exports under, and the suffix of each format
BaseKey ==
    [generate |-> "OUTPUT", validate |-> "VALIDATION_RESULT", analyze |-> "ANALYSIS_RESULT",
     convert |-> "CONVERSION_RESULT", batch_validate |-> "BATCH_VALIDATION",
     batch_analyze |-> "BATCH_ANALYSIS", check_collisions |-> "COLLISION_CHECK",
     statistics |-> "STATISTICS"]

KeySuffix == [json |-> "", csv |-> ".csv", text |-> ".txt"]

\* the run of a job completed
RunCompleted == fn = "Actor.main" /\ outcome.kind = "return"

\* C26: a job run goes to the one handler of its operation (generate when
\* none is given); a run that completes has made exactly one dataset push
\* and then exactly one key-value store write, and only then reports
\* 'Operation completed successfully!'; the key written is the base key of
\* the handler (OUTPUT for generate) for json, with .csv for csv and .txt
\* for text, and no other key is written.
C26_OnePushThenOneWrite ==
    RunCompleted =>
        /\ outcome.value = "Operation completed successfully!"
        /\ request.input \notin {Undefined, JsNull}
        /\ LET operation == Default(request.input, "operation", "generate")
               format    == OutputFormat(request.input)
           IN  /\ operation \in DOMAIN BaseKey
               /\ format \in DOMAIN KeySuffix
               /\ Len(effects) = 2
               /\ effects[1].op = "pushData"
               /\ effects[2].op = "setValue"
               /\ effects[2].key = BaseKey[operation] \o KeySuffix[format]

\* a statistics job with outputFormat csv completed and wrote STATISTICS.csv
C26_Witness ==
    /\ RunCompleted
    /\ Default(request.input, "operation", "generate") = "statistics"
    /\ OutputFormat(request.input) = "csv"
    /\ Len(effects) = 2
    /\ effects[1].op = "pushData"
    /\ effects[2].key = "STATISTICS.csv"

----------------------------------------------------------------------------
(* Properties relating validation, analysis and the collision check.       *)

\* the verdict of analyzeUUID on a string
AnalysedValid(x) == analyzeUUID(x).value.valid

\* C27 as stated: validation and analysis agree on every string, so that
\* batchValidate and batchAnalyze report the same valid and invalid counts
\* for the same sequence of strings (compact strings and strings with dashes
\* in other places included): validateUUID(s) = analyzeUUID(s).valid, and
\* where both are true getUUIDVersion(s) = analyzeUUID(s).version.
C27_AsStated ==
    (fn = "batchValidate" /\ AllStrings(uuids)) =>
        /\ \A i \in 1..Len(uuids) :
               /\ Result.results[i].valid = AnalysedValid(uuids[i])
               /\ Result.results[i].valid => Result.results[i].version = Num(analyzeUUID(uuids[i]).value.version)
        /\ LET report == batchAnalyze(uuids).value
           IN  Result.valid = report.valid /\ Result.invalid = report.invalid

\* what does hold: a string that validates is valid under analysis with the
\* same version, and the two agree on strings written in the dashed layout;
\* batchAnalyze never counts fewer valid strings than batchValidate
C27_ValidateImpliesAnalysed ==
    (fn = "batchValidate" /\ AllStrings(uuids)) =>
        /\ \A i \in 1..Len(uuids) :
               /\ Result.results[i].valid =>
                      /\ AnalysedValid(uuids[i])
                      /\ Result.results[i].version = Num(analyzeUUID(uuids[i]).value.version)
               /\ IsDashedHex(uuids[i].s) => Result.results[i].valid = AnalysedValid(uuids[i])
        /\ Result.valid <= batchAnalyze(uuids).value.valid

\* other writings of the same characters: case changed, dashes removed, and
\* the dashed layout when there are 32 characters besides the dashes
Writings(s) ==
    {toUpperCase(s), toLowerCase(s), StripDashes(s), StripDashes(toUpperCase(s))}
        \cup (IF Len(StripDashes(s)) = 32 THEN {Regroup(StripDashes(s))} ELSE {})

\* the array with the string at position p written as w
Rewrite(array, p, w) ==
    [array EXCEPT ![p] = IF array[p].t = "object" THEN Wrapped(Str(w)) ELSE Str(w)]

Counts(report) == <<report.total, report.unique, report.duplicates>>

\* C28: checkCollisions conserves elements. After the loop has processed a
\* prefix of length i, the size of seen plus the number of duplicates
\* recorded is i; so the report has unique + duplicates = total, collisions
\* has duplicates entries, every collision index lies in 1..total-1, and
\* unique >= 1 when the input is not empty; and the counts stay the same
\* when an element is written in another case or with other dashes.
C28_Conservation ==
    fn = "checkCollisions" =>
        /\ outcome.kind = "running" =>
               /\ outcome.i \in 0..Len(uuids)
               /\ Cardinality(outcome.seen) + Len(outcome.duplicates) = outcome.i
        /\ outcome.kind = "return" =>
               /\ outcome = checkCollisions(uuids)
               /\ Result.total = Len(uuids)
               /\ Result.unique + Result.duplicates = Result.total
               /\ Len(Result.collisions) = Result.duplicates
               /\ \A c \in 1..Len(Result.collisions) : Result.collisions[c].index \in 1..(Result.total - 1)
               /\ Result.total > 0 => Result.unique >= 1
               /\ \A p \in 1..Len(uuids) : \A w \in Writings(IdentifierAt(p).s) :
                      Counts(checkCollisions(Rewrite(uuids, p, w)).value) = Counts(Result)

\* the loop has processed the upper-case and the compact writing of one
\* identifier and is about to look at a third element: one seen, one duplicate
C28_Witness ==
    /\ fn = "checkCollisions"
    /\ Len(uuids) = 3
    /\ uuids[1] = Str(toUpperCase(Regroup(DocumentedV4)))
    /\ uuids[2] = Str(DocumentedV4)
    /\ outcome = Frame(2, {DocumentedV4}, <<[uuid |-> Str(DocumentedV4), index |-> 1]>>)

====
